---- MODULE Spec2Model ----
(***************************************************************************)
(* Dual-implementation resource manager layer of commonpython:             *)
(* the manager factory with its availability cache, the command-line       *)
(* backends (DB2Manager, MQManager) and the native-library backends        *)
(* (DB2LibraryAdapter, MQLibraryAdapter); the component lifecycle          *)
(* (ComponentBase.start) and the component registry.                       *)
(***************************************************************************)
EXTENDS Integers, Sequences, FiniteSets, TLC

VARIABLES
    driven,         \* the manager instance the caller holds and calls
    adapter_cache,  \* ManagerFactory._adapter_cache: kind -> "None" | "True" | "False"
    HAS_LIB,        \* HAS_IBM_DB / HAS_PYMQI module flags: kind -> BOOLEAN
    importable,     \* whether the library adapter module of a kind can be imported
    fcall,          \* the last factory call: its inputs and everything it did
    connected,      \* DB2Manager.connected of the CLI database instance
    conn,           \* DB2LibraryAdapter._conn: "None" | "handle"
    dbi_conn,       \* DB2LibraryAdapter._dbi_conn: "None" | "handle"
    handle_active,  \* what ibm_db.active(_conn) answers for the native handle
    uncommitted,    \* native connection: statements executed and not yet committed
    committed,      \* native connection: statements made durable by a commit
    txn,            \* per database backend: the transaction scope (with-block)
    mq_connected,   \* MQManager.connected of the CLI messaging instance
    qmgr,           \* MQLibraryAdapter._qmgr: "None" | "handle"
    qmgr_live,      \* what _qmgr.is_connected answers for the native handle
    queue,          \* the messages on the broker's queue, oldest first
    call,           \* the last backend operation: what it issued and how it ended
    start_pc,       \* ComponentBase.start: where the running call stands
    hook_calls,     \* the hooks the current start has called, with how each ended
    start_pending,  \* what start is about to do once its finally block is through
    start_result,   \* how the last finished start ended
    component_log,  \* the levels of the log calls made by the current start
    starts,         \* how many times start was called on the component
    components,     \* ComponentRegistry._components, in insertion order
    registered,     \* names registered and not since unregistered or cleared
    rcall,          \* the last registry call
    inst_class,     \* two manager instances in one process: the class of each
    inst_connected, \* per instance: the connected attribute of a Command-Line manager
    inst_handle,    \* per instance: _conn / _qmgr of a native adapter
    query_pc,       \* per instance: where its running execute_query stands
    query_pending,  \* per instance: the rows its running execute_query has parsed
    query_out,      \* per instance: how its last execute_query ended
    result_file,    \* /tmp/query_result.csv: absent, or whose result set it holds
    statement_files,\* the statement files that exist, by the instance that made them
    icall,          \* the last operation on one of the two instances
    race_kind,      \* concurrent create calls: the resource kind they are for
    create_pc,      \* per thread: where its running create call stands
    create_config,  \* per thread: the configuration of its create call
    create_result,  \* per thread: what its last create call returned or raised
    browse_backend, \* browse against a consumer: the backend of the browsing instance
    browse_pc,      \* where the running browse_message stands
    browse_held,    \* the message a Command-Line browse has taken and not yet put back
    browse_result,  \* what the last browse_message returned
    consumer_got,   \* what the other consumer's last get_message returned, and how
                    \* many messages were then put and not consumed
    outstanding,    \* messages put and not consumed by anyone
    loaded,         \* ConfigManager._config: the loaded section of each resource kind
    svc_call        \* the last step that took a configuration to a manager

factoryVars == <<adapter_cache, HAS_LIB, importable, fcall>>

dbVars == <<connected, conn, dbi_conn, handle_active, uncommitted, committed, txn>>

mqVars == <<mq_connected, qmgr, qmgr_live, queue>>

componentVars ==
    <<start_pc, hook_calls, start_pending, start_result, component_log, starts>>

registryVars == <<components, registered, rcall>>

twoManagerVars ==
    <<inst_class, inst_connected, inst_handle, query_pc, query_pending, query_out,
      result_file, statement_files, icall>>

createRaceVars == <<race_kind, create_pc, create_config, create_result>>

browseRaceVars ==
    <<browse_backend, browse_pc, browse_held, browse_result, consumer_got, outstanding>>

servicesVars == <<loaded, svc_call>>

laterVars == <<twoManagerVars, createRaceVars, browseRaceVars, servicesVars>>

\* everything but the broker's queue and the variables of the browse race
nonBrowseRaceVars ==
    <<driven, factoryVars, dbVars, mq_connected, qmgr, qmgr_live, call, componentVars,
      registryVars, twoManagerVars, createRaceVars, servicesVars>>

nonCreateRaceVars ==
    <<driven, HAS_LIB, importable, fcall, dbVars, mqVars, call, componentVars,
      registryVars, twoManagerVars, browseRaceVars, servicesVars>>

nonFactoryVars == <<driven, dbVars, mqVars, call, componentVars, registryVars, laterVars>>

nonDbVars == <<driven, factoryVars, mqVars, componentVars, registryVars, laterVars>>

nonMqVars == <<driven, factoryVars, dbVars, componentVars, registryVars, laterVars>>

nonComponentVars == <<driven, factoryVars, dbVars, mqVars, call, registryVars, laterVars>>

nonRegistryVars == <<driven, factoryVars, dbVars, mqVars, call, componentVars, laterVars>>

earlierVars == <<driven, factoryVars, dbVars, mqVars, call, componentVars, registryVars>>

nonTwoManagerVars == <<earlierVars, createRaceVars, browseRaceVars, servicesVars>>

\* everything but the availability cache, the last factory call and the
\* variables of the configuration path
nonServicesVars ==
    <<driven, HAS_LIB, importable, dbVars, mqVars, call, componentVars, registryVars,
      twoManagerVars, createRaceVars, browseRaceVars>>

vars == <<driven, adapter_cache, HAS_LIB, importable, fcall,
          connected, conn, dbi_conn, handle_active, uncommitted, committed, txn,
          mq_connected, qmgr, qmgr_live, queue, call,
          start_pc, hook_calls, start_pending, start_result, component_log, starts,
          components, registered, rcall,
          inst_class, inst_connected, inst_handle, query_pc, query_pending, query_out,
          result_file, statement_files, icall,
          race_kind, create_pc, create_config, create_result,
          browse_backend, browse_pc, browse_held, browse_result, consumer_got,
          outstanding, loaded, svc_call>>

----------------------------------------------------------------------------
(* Values *)

Kinds == {"db2", "mq"}

Absent == "absent"

\* values a caller may put under config["implementation"]
ImplementationValues == {Absent, "cli", "CLI", "library", "Library", "native", "Native"}

\* values a caller may put under config["auto_fallback"]
AutoFallbackValues == {Absent, "True", "False"}

Configs == [implementation : ImplementationValues, auto_fallback : AutoFallbackValues]

CacheValues == {"None", "True", "False"}

PyBool(b) == IF b THEN "True" ELSE "False"

\* the string compared as it was given
Lower_asGiven(s) == s

\* str.lower() on the implementation strings of the model
Lower(s) ==
    CASE s = "CLI" -> "cli"
      [] s = "Library" -> "library"
      [] s = "Native" -> "native"
      [] OTHER -> s

\* config[key] in place of config.get(key, default)
ConfigGet_noDefault(config, key, default) == config[key]

\* dict.get(key, default)
ConfigGet(config, key, default) ==
    IF config[key] = Absent THEN default ELSE config[key]

CLIAdapterOf(kind) == IF kind = "db2" THEN "DB2CLIAdapter" ELSE "MQCLIAdapter"

LibraryAdapterOf(kind) == IF kind = "db2" THEN "DB2LibraryAdapter" ELSE "MQLibraryAdapter"

NoCall ==
    [op |-> "none", kind |-> "none", config |-> [implementation |-> Absent, auto_fallback |-> Absent],
     logger |-> FALSE, cache_before |-> "None", available |-> "None", probed |-> FALSE,
     outcome |-> "none",
     value |-> "none", constructed |-> <<>>, warnings |-> 0, infos |-> 0,
     instance_connected |-> "none", attempts |-> <<>>,
     named |-> "none", report |-> [k \in Kinds |-> "none"],
     cli_report |-> [k \in Kinds |-> "none"]]

----------------------------------------------------------------------------
(* Manager factory *)

\* the import attempted when the cache entry is None:
\* "from ..adapters.<kind>_library_adapter import HAS_<LIB>", ImportError -> False
ProbeLibrary(kind) ==
    IF importable[kind] THEN PyBool(HAS_LIB[kind]) ELSE "False"

\* the import attempted by every create call
CacheAfterCheck_alwaysProbe(kind) == ProbeLibrary(kind)

\* the cache entry after the "is None" check of a create call
CacheAfterCheck(kind) ==
    IF adapter_cache[kind] = "None" THEN ProbeLibrary(kind) ELSE adapter_cache[kind]

\* the connection handle a new native adapter holds (_conn, _qmgr)
NewHandle == "None"

\* DB2LibraryAdapter.__init__ / MQLibraryAdapter.__init__: raise ImportError
\* when the module flag is false; otherwise the fields are set, no library
\* call is made and is_connected() of the new instance is false
LibraryAdapterInit(kind) ==
    IF importable[kind] /\ HAS_LIB[kind]
    THEN [outcome |-> "return", value |-> LibraryAdapterOf(kind),
          constructed |-> <<LibraryAdapterOf(kind)>>,
          connected |-> PyBool(NewHandle # "None"), attempts |-> <<>>]
    ELSE [outcome |-> "raise", value |-> "ImportError", constructed |-> <<>>,
          connected |-> "none", attempts |-> <<>>]

\* the messaging adapter constructed for either kind
CLIAdapterInit_alwaysMQ(kind) ==
    [outcome |-> "return", value |-> "MQCLIAdapter", constructed |-> <<"MQCLIAdapter">>,
     connected |-> PyBool(FALSE), attempts |-> <<>>]

\* a constructor that connects
CLIAdapterInit_connects(kind) ==
    [outcome |-> "return", value |-> CLIAdapterOf(kind),
     constructed |-> <<CLIAdapterOf(kind)>>,
     connected |-> PyBool(TRUE), attempts |-> <<"connect to">>]

\* DB2CLIAdapter.__init__ / MQCLIAdapter.__init__: wrap a new CLI manager,
\* whose constructor sets connected = False and runs no tool
CLIAdapterInit(kind) ==
    [outcome |-> "return", value |-> CLIAdapterOf(kind),
     constructed |-> <<CLIAdapterOf(kind)>>,
     connected |-> PyBool(FALSE), attempts |-> <<>>]

\* fallback taken whatever the flag says
AutoFallback_always(config) == TRUE

\* auto_fallback = config.get("auto_fallback", True), as tested by "elif auto_fallback"
AutoFallback(config) == ConfigGet(config, "auto_fallback", "True") = "True"

\* what the selection part of a create call does with the (already filled)
\* cache entry avail: the instance or error, the log calls it makes and the
\* implementation value that the "Unknown ... implementation type" message names
SelectImplementation(kind, config, logger, avail) ==
    LET impl_type == Lower(ConfigGet(config, "implementation", "cli"))
        auto_fallback == AutoFallback(config)
        n == IF logger THEN 1 ELSE 0
    IN  IF impl_type = "library"
        THEN IF avail = "True"
             THEN [made |-> LibraryAdapterInit(kind), warnings |-> 0, infos |-> n,
                   named |-> "none"]
             ELSE IF auto_fallback
                  THEN [made |-> CLIAdapterInit(kind), warnings |-> n, infos |-> 0,
                        named |-> "none"]
                  ELSE [made |-> [outcome |-> "raise", value |-> "ValueError:not installed",
                                  constructed |-> <<>>, connected |-> "none",
                                  attempts |-> <<>>],
                        warnings |-> 0, infos |-> 0, named |-> "none"]
        ELSE IF impl_type = "cli"
             THEN [made |-> CLIAdapterInit(kind), warnings |-> 0, infos |-> n,
                   named |-> "none"]
             ELSE [made |-> [outcome |-> "raise", value |-> "ValueError:unknown type",
                             constructed |-> <<>>, connected |-> "none",
                             attempts |-> <<>>],
                   warnings |-> 0, infos |-> 0, named |-> impl_type]

\* the availability check made only on the way to the library adapter
CreateManager_probeOnlyForLibrary(op, kind, config, logger) ==
    LET avail == IF Lower(ConfigGet(config, "implementation", "cli")) = "library"
                 THEN CacheAfterCheck(kind)
                 ELSE adapter_cache[kind]
        sel == SelectImplementation(kind, config, logger, avail)
    IN  /\ adapter_cache' = [adapter_cache EXCEPT ![kind] = avail]
        /\ fcall' = [op |-> op, kind |-> kind, config |-> config, logger |-> logger,
                     cache_before |-> adapter_cache[kind], available |-> avail,
                     probed |-> (adapter_cache[kind] = "None"),
                     outcome |-> sel.made.outcome, value |-> sel.made.value,
                     constructed |-> sel.made.constructed,
                     instance_connected |-> sel.made.connected,
                     attempts |-> sel.made.attempts,
                     warnings |-> sel.warnings, infos |-> sel.infos,
                     named |-> sel.named, report |-> NoCall.report,
                     cli_report |-> NoCall.cli_report]
        /\ UNCHANGED <<HAS_LIB, importable>>
        /\ UNCHANGED nonFactoryVars

\* a create call: the cache check, then the selection
CreateManager(op, kind, config, logger) ==
    LET avail == CacheAfterCheck(kind)
        sel == SelectImplementation(kind, config, logger, avail)
    IN  /\ adapter_cache' = [adapter_cache EXCEPT ![kind] = avail]
        /\ fcall' = [op |-> op, kind |-> kind, config |-> config, logger |-> logger,
                     cache_before |-> adapter_cache[kind], available |-> avail,
                     probed |-> (adapter_cache[kind] = "None"),
                     outcome |-> sel.made.outcome, value |-> sel.made.value,
                     constructed |-> sel.made.constructed,
                     instance_connected |-> sel.made.connected,
                     attempts |-> sel.made.attempts,
                     warnings |-> sel.warnings, infos |-> sel.infos,
                     named |-> sel.named, report |-> NoCall.report,
                     cli_report |-> NoCall.cli_report]
        /\ UNCHANGED <<HAS_LIB, importable>>
        /\ UNCHANGED nonFactoryVars

create_database_manager ==
    \E config \in Configs, logger \in BOOLEAN :
        CreateManager("create_database_manager", "db2", config, logger)

create_messaging_manager ==
    \E config \in Configs, logger \in BOOLEAN :
        CreateManager("create_messaging_manager", "mq", config, logger)

\* the flags found by the imports stored as the cache entries
get_available_implementations_fillsCache ==
    /\ fcall' = [NoCall EXCEPT !.op = "get_available_implementations",
                               !.outcome = "return",
                               !.value = "dict",
                               !.probed = TRUE,
                               !.report = [k \in Kinds |-> ProbeLibrary(k)],
                               !.cli_report = [k \in Kinds |-> "True"]]
    /\ adapter_cache' = [k \in Kinds |-> ProbeLibrary(k)]
    /\ UNCHANGED <<HAS_LIB, importable>>
    /\ UNCHANGED nonFactoryVars

\* get_available_implementations: both library adapter modules are imported
\* anew and their flags reported; the cache is neither read nor written
get_available_implementations ==
    /\ fcall' = [NoCall EXCEPT !.op = "get_available_implementations",
                               !.outcome = "return",
                               !.value = "dict",
                               !.probed = TRUE,
                               !.report = [k \in Kinds |-> ProbeLibrary(k)],
                               !.cli_report = [k \in Kinds |-> "True"]]
    /\ UNCHANGED <<adapter_cache, HAS_LIB, importable>>
    /\ UNCHANGED nonFactoryVars

reset_cache ==
    /\ adapter_cache' = [k \in Kinds |-> "None"]
    /\ fcall' = [NoCall EXCEPT !.op = "reset_cache", !.outcome = "return"]
    /\ UNCHANGED <<HAS_LIB, importable>>
    /\ UNCHANGED nonFactoryVars

\* the installation changes under the running process: the module flag of a
\* native library is set or cleared (as the tests do by patching it), or the
\* library adapter module becomes importable or stops being so
library_availability_changes ==
    /\ \E k \in Kinds :
        \/ /\ HAS_LIB' = [HAS_LIB EXCEPT ![k] = ~HAS_LIB[k]]
           /\ UNCHANGED importable
        \/ /\ importable' = [importable EXCEPT ![k] = ~importable[k]]
           /\ UNCHANGED HAS_LIB
    /\ UNCHANGED <<adapter_cache, fcall>>
    /\ UNCHANGED nonFactoryVars

----------------------------------------------------------------------------
(* Shared by the database backends *)

\* how one external tool invocation (subprocess.run) can end
ToolOutcomes == {"ok", "nonzero", "timeout", "oserror"}

\* how one native library call can end
NativeOutcomes == {"ok", "raise"}

\* how the body of a with-block can end
BodyResults == {"normal", "Exception", "BaseException"}

Backends == {"cli", "native"}

MaxBatch == 2

MaxRows == 1

MaxStatements == 2

NoError == <<"none", "none">>

NotConnectedError == <<"NotConnected", "guard">>

NoTxn ==
    [phase |-> "idle", trace |-> <<>>, body |-> "none", committed_at_enter |-> 0]

NoBackendCall ==
    [backend |-> "none", op |-> "none", outcome |-> "none", value |-> "none", count |-> 0,
     error |-> NoError, invocations |-> <<>>, stmts |-> <<>>, was_connected |-> FALSE,
     msg |-> "none", outs |-> <<>>, stdout |-> <<>>, created |-> {}, files |-> {},
     impl |-> [outcome |-> "none", value |-> "none", count |-> 0, error |-> NoError]]

Returned(value, count, invocations) ==
    [outcome |-> "return", value |-> value, count |-> count, error |-> NoError,
     invocations |-> invocations, stmts |-> <<>>, msg |-> "none", outs |-> <<>>,
     stdout |-> <<>>, created |-> {}, files |-> {}]

Raised(error, invocations) ==
    [outcome |-> "raise", value |-> "none", count |-> 0, error |-> error,
     invocations |-> invocations, stmts |-> <<>>, msg |-> "none", outs |-> <<>>,
     stdout |-> <<>>, created |-> {}, files |-> {}]

\* what a call of the wrapped Command-Line manager gave back
ImplResult(r) ==
    [outcome |-> r.outcome, value |-> r.value, count |-> r.count, error |-> r.error]

\* a shim that catches what the wrapped manager raises
CLIAdapterCall_swallowsErrors(r) ==
    IF r.outcome = "raise"
    THEN [r EXCEPT !.outcome = "return", !.value = "None", !.error = NoError]
    ELSE r

\* a method of DB2CLIAdapter / MQCLIAdapter, given the result r of the same
\* method of the wrapped manager: "return self._impl.<method>(<arguments>)",
\* with no handler around it
CLIAdapterCall(r) == r

\* the record kept of a finished call; the Command-Line backends are called
\* through their adapter
Call(backend, op, was_connected, r) ==
    LET a == IF backend \in {"cli", "mqcli"} THEN CLIAdapterCall(r) ELSE r
    IN  [backend |-> backend, op |-> op, outcome |-> a.outcome, value |-> a.value,
         count |-> a.count, error |-> a.error, invocations |-> a.invocations,
         stmts |-> a.stmts, was_connected |-> was_connected, msg |-> a.msg,
         outs |-> a.outs, stdout |-> a.stdout, created |-> a.created, files |-> a.files,
         impl |-> ImplResult(r)]

\* the result r of an operation, with the way each of its external tool
\* invocations ended (one entry per invocation issued, in order)
Ran(r, outs) == [r EXCEPT !.outs = SubSeq(outs, 1, Len(r.invocations))]

RaisesFromTool(out) == out \in {"timeout", "oserror"}

\* the outcomes of the invocations one execute_query makes: the import, the
\* export (reached only if the import did not raise) and the number of rows
\* in the exported file (only if the export succeeded)
\* and whether the export left a result file behind (a successful export
\* that yields rows has written it; an export that was never reached has not)
QueryRunsCLI ==
    {x \in ToolOutcomes \X ToolOutcomes \X (0..MaxRows) \X BOOLEAN :
        /\ RaisesFromTool(x[1]) => x[2] = "ok"
        /\ (RaisesFromTool(x[1]) \/ x[2] # "ok") => x[3] = 0
        /\ RaisesFromTool(x[1]) => ~x[4]
        /\ x[3] > 0 => x[4]}

\* the outcomes of the statements a batch of n gets to execute: it stops at
\* the first one that raises
StatementRuns(n, outcomes, raising) ==
    {st \in UNION {[1..k -> outcomes] : k \in 0..n} :
        /\ \A i \in 1..Len(st) : (st[i] \in raising) => i = Len(st)
        /\ Len(st) < n => (Len(st) > 0 /\ st[Len(st)] \in raising)}

\* the runs of the end of a with-block: commit is reached only if the body
\* returned normally, rollback only if the body or the commit raised
TxnExitRuns(outcomes, raising) ==
    {x \in BodyResults \X outcomes \X outcomes :
        /\ x[1] # "normal" => x[2] = "ok"
        /\ (x[1] = "BaseException" \/ (x[1] = "normal" /\ x[2] \notin raising)) => x[3] = "ok"}

\* the runs of the start of a with-block: rollback only if begin raised
TxnEnterRunsCLI ==
    {x \in ToolOutcomes \X ToolOutcomes : ~RaisesFromTool(x[1]) => x[2] = "ok"}

\* the runs of a native batch of n statements
BatchRunsNative(n) ==
    {x \in [stmts : StatementRuns(n, NativeOutcomes, {"raise"}),
            commit : NativeOutcomes, rollback : NativeOutcomes] :
        LET failed == x.stmts # <<>> /\ x.stmts[Len(x.stmts)] = "raise"
        IN  /\ failed => x.commit = "ok"
            /\ (~failed /\ x.commit = "ok") => x.rollback = "ok"}

Repeat(x, n) == [i \in 1..n |-> x]

Min(S) == CHOOSE x \in S : \A y \in S : x <= y

----------------------------------------------------------------------------
(* DB2Manager: the command-line database backend *)

\* _execute_db2_command: the result dictionary, or the exception it raises
\* for a timeout and for any other failure to run the tool
execute_db2_command(command, out) ==
    CASE out = "timeout" -> [raised |-> TRUE, success |-> FALSE,
                             error |-> <<"CommandTimeout", command>>]
      [] out = "oserror" -> [raised |-> TRUE, success |-> FALSE,
                             error |-> <<"CommandError", command>>]
      [] OTHER -> [raised |-> FALSE, success |-> (out = "ok"), error |-> NoError]

DB2Manager_is_connected == connected

\* DB2CLIAdapter.is_connected: "return self._impl.is_connected()"
DB2CLIAdapter_is_connected == DB2Manager_is_connected

DB2Manager_connect ==
    \E out \in ToolOutcomes :
        LET r == execute_db2_command("connect to", out)
            ok == ~r.raised /\ r.success
        IN  /\ connected' = (IF ok THEN TRUE ELSE connected)
            /\ call' = Call("cli", "connect", DB2Manager_is_connected,
                                Ran(Returned(PyBool(ok), 0, <<"connect to">>), <<out>>))
            /\ UNCHANGED <<conn, dbi_conn, handle_active, uncommitted, committed, txn>>
            /\ UNCHANGED nonDbVars

DB2Manager_disconnect ==
    \E out \in ToolOutcomes :
        LET r == execute_db2_command("disconnect", out)
        IN  /\ IF connected
               THEN /\ connected' = (IF r.raised THEN connected ELSE FALSE)
                    /\ call' = Call("cli", "disconnect", TRUE,
                                        Ran(Returned("None", 0, <<"disconnect">>), <<out>>))
               ELSE /\ connected' = connected
                    /\ call' = Call("cli", "disconnect", FALSE,
                                        Returned("None", 0, <<>>))
            /\ UNCHANGED <<conn, dbi_conn, handle_active, uncommitted, committed, txn>>
            /\ UNCHANGED nonDbVars

\* execute_query: the statement file is imported, then the result set is
\* exported to the result file and parsed into rows
QueryFile == "query.sql"

ResultFile == "/tmp/query_result.csv"

\* the temporary files one execute_query has made by the time its finally
\* block runs: the statement file once the guard is passed, the result file
\* if the export was reached and wrote it
QueryTempFiles(importOut, wrote) ==
    IF ~DB2Manager_is_connected THEN {}
    ELSE {QueryFile} \cup (IF ~RaisesFromTool(importOut) /\ wrote THEN {ResultFile} ELSE {})

FinallyCleanup_statementFileOnly(existing) == existing \ {QueryFile}

\* the finally block: the statement file is unlinked when temp_file is bound,
\* the result file when it exists
FinallyCleanup(existing) == (existing \ {QueryFile}) \ {ResultFile}

ExecuteQueryCLI(importOut, exportOut, rows, wrote) ==
    LET imp == execute_db2_command("import from", importOut)
        exp == execute_db2_command("export to", exportOut)
        r == IF ~DB2Manager_is_connected THEN Raised(NotConnectedError, <<>>)
             ELSE IF imp.raised THEN Raised(imp.error, <<"import from">>)
             ELSE IF exp.raised THEN Raised(exp.error, <<"import from", "export to">>)
             ELSE IF exp.success THEN Returned("rows", rows, <<"import from", "export to">>)
             ELSE Raised(<<"QueryFailed", "export to">>, <<"import from", "export to">>)
        made == QueryTempFiles(importOut, wrote)
    IN  [Ran(r, <<importOut, exportOut>>) EXCEPT !.created = made,
                                                 !.files = FinallyCleanup(made)]

\* execute_update: the statement file is imported; the tool's exit code is
\* not looked at and the fixed count 1 is returned
ExecuteUpdateCLI(out) ==
    LET r == execute_db2_command("import from", out)
    IN  Ran(IF ~DB2Manager_is_connected THEN Raised(NotConnectedError, <<>>)
            ELSE IF r.raised THEN Raised(r.error, <<"import from">>)
            ELSE Returned("int", 1, <<"import from">>),
            <<out>>)

DbFrameCLI == UNCHANGED <<connected, conn, dbi_conn, handle_active, uncommitted, committed, txn>>

DB2Manager_execute_query ==
    \E run \in QueryRunsCLI :
        /\ call' = Call("cli", "execute_query", DB2Manager_is_connected,
                            ExecuteQueryCLI(run[1], run[2], run[3], run[4]))
        /\ DbFrameCLI
        /\ UNCHANGED nonDbVars

DB2Manager_execute_update ==
    \E out \in ToolOutcomes :
        /\ call' = Call("cli", "execute_update", DB2Manager_is_connected,
                            ExecuteUpdateCLI(out))
        /\ DbFrameCLI
        /\ UNCHANGED nonDbVars

DB2Manager_get_table_info ==
    \E run \in QueryRunsCLI :
        /\ call' = Call("cli", "get_table_info", DB2Manager_is_connected,
                            ExecuteQueryCLI(run[1], run[2], run[3], run[4]))
        /\ DbFrameCLI
        /\ UNCHANGED nonDbVars

DB2Manager_get_database_info ==
    \E run \in QueryRunsCLI :
        LET q == ExecuteQueryCLI(run[1], run[2], run[3], run[4])
            r == IF q.outcome = "raise" THEN q
                 ELSE IF q.count > 0
                 THEN [Returned("row", 1, q.invocations) EXCEPT !.outs = q.outs, !.created = q.created,
                                                   !.files = q.files]
                 ELSE [Returned("{}", 0, q.invocations) EXCEPT !.outs = q.outs, !.created = q.created,
                                                   !.files = q.files]
        IN  /\ call' = Call("cli", "get_database_info", DB2Manager_is_connected, r)
            /\ DbFrameCLI
            /\ UNCHANGED nonDbVars

DB2Manager_test_connection ==
    \E run \in QueryRunsCLI :
        LET q == ExecuteQueryCLI(run[1], run[2], run[3], run[4])
            r == IF q.outcome = "raise"
                 THEN [Returned("False", 0, q.invocations) EXCEPT !.outs = q.outs, !.created = q.created,
                                                   !.files = q.files]
                 ELSE [Returned(PyBool(q.count > 0), 0, q.invocations) EXCEPT !.outs = q.outs, !.created = q.created,
                                                   !.files = q.files]
        IN  /\ call' = Call("cli", "test_connection", DB2Manager_is_connected, r)
            /\ DbFrameCLI
            /\ UNCHANGED nonDbVars

\* execute_batch: begin, one execute_update per statement, commit; any
\* exception goes to the handler that issues rollback and re-raises
ExecuteBatchCLI(n, stmts, beginOut, commitOut, rollbackOut) ==
    LET beginR == execute_db2_command("begin transaction", beginOut)
        commitR == execute_db2_command("commit", commitOut)
        rollbackR == execute_db2_command("rollback", rollbackOut)
        failing == {i \in 1..Len(stmts) : ExecuteUpdateCLI(stmts[i]).outcome = "raise"}
        commitIssued == ~beginR.raised /\ failing = {}
        tryError == IF beginR.raised THEN beginR.error
                    ELSE IF failing # {} THEN ExecuteUpdateCLI(stmts[Min(failing)]).error
                    ELSE IF commitR.raised THEN commitR.error
                    ELSE NoError
        invocations == <<"begin transaction">> \o Repeat("import from", Len(stmts))
                       \o (IF commitIssued THEN <<"commit">> ELSE <<>>)
                       \o (IF tryError # NoError THEN <<"rollback">> ELSE <<>>)
        r == IF tryError = NoError THEN Returned("list", n, invocations)
             ELSE IF rollbackR.raised THEN Raised(rollbackR.error, invocations)
             ELSE Raised(tryError, invocations)
    IN  IF ~DB2Manager_is_connected THEN Raised(NotConnectedError, <<>>)
        ELSE [r EXCEPT !.stmts = stmts]

\* the runs of a batch of n statements: the statements are reached only if
\* begin did not raise, commit only if no statement raised, rollback only
\* if something raised
BatchRunsCLI(n) ==
    {x \in [begin : ToolOutcomes,
            stmts : StatementRuns(n, ToolOutcomes, {"timeout", "oserror"}) \cup {<<>>},
            commit : ToolOutcomes, rollback : ToolOutcomes] :
        LET failed == x.stmts # <<>> /\ RaisesFromTool(x.stmts[Len(x.stmts)])
        IN  /\ RaisesFromTool(x.begin) => (x.stmts = <<>> /\ x.commit = "ok")
            /\ ~RaisesFromTool(x.begin)
                   => x.stmts \in StatementRuns(n, ToolOutcomes, {"timeout", "oserror"})
            /\ failed => x.commit = "ok"
            /\ (~RaisesFromTool(x.begin) /\ ~failed /\ ~RaisesFromTool(x.commit))
                   => x.rollback = "ok"}

DB2Manager_execute_batch ==
    \E n \in 0..MaxBatch :
        \E x \in BatchRunsCLI(n) :
            /\ call' = Call("cli", "execute_batch", DB2Manager_is_connected,
                                ExecuteBatchCLI(n, x.stmts, x.begin, x.commit, x.rollback))
            /\ DbFrameCLI
            /\ UNCHANGED nonDbVars

\* transaction(), up to the yield: the guard and the begin invocation; an
\* exception of the begin invocation is handled like one of the body
DB2Manager_transaction_enter ==
    /\ txn["cli"].phase # "body"
    /\ \E run \in TxnEnterRunsCLI :
        LET beginOut == run[1]
            rollbackOut == run[2]
            beginR == execute_db2_command("begin transaction", beginOut)
            rollbackR == execute_db2_command("rollback", rollbackOut)
        IN  IF ~DB2Manager_is_connected
            THEN /\ call' = Call("cli", "transaction", FALSE,
                                     Raised(NotConnectedError, <<>>))
                 /\ txn' = txn
            ELSE IF beginR.raised
            THEN /\ call' = Call("cli", "transaction", TRUE,
                        Raised(IF rollbackR.raised THEN rollbackR.error ELSE beginR.error,
                               <<"begin transaction", "rollback">>))
                 /\ txn' = [txn EXCEPT !["cli"] =
                        [NoTxn EXCEPT !.phase = "done", !.trace = <<"begin", "rollback">>]]
            ELSE /\ call' = Call("cli", "transaction", TRUE,
                                     Returned("scope", 0, <<"begin transaction">>))
                 /\ txn' = [txn EXCEPT !["cli"] =
                        [NoTxn EXCEPT !.phase = "body", !.trace = <<"begin", "body">>]]
    /\ UNCHANGED <<connected, conn, dbi_conn, handle_active, uncommitted, committed>>
    /\ UNCHANGED nonDbVars

\* transaction(), after the yield: the body has ended with bodyResult
DB2Manager_transaction_exit ==
    /\ txn["cli"].phase = "body"
    /\ \E run \in TxnExitRuns(ToolOutcomes, {"timeout", "oserror"}) :
        LET bodyResult == run[1]
            commitOut == run[2]
            rollbackOut == run[3]
            commitR == execute_db2_command("commit", commitOut)
            rollbackR == execute_db2_command("rollback", rollbackOut)
            t == txn["cli"]
        IN  CASE bodyResult = "normal" /\ ~commitR.raised ->
                 /\ call' = Call("cli", "transaction_exit", connected,
                                     Returned("None", 0, <<"commit">>))
                 /\ txn' = [txn EXCEPT !["cli"] = [t EXCEPT !.phase = "done",
                        !.body = bodyResult, !.trace = t.trace \o <<"commit">>]]
              [] bodyResult = "normal" /\ commitR.raised ->
                 /\ call' = Call("cli", "transaction_exit", connected,
                        Raised(IF rollbackR.raised THEN rollbackR.error ELSE commitR.error,
                               <<"commit", "rollback">>))
                 /\ txn' = [txn EXCEPT !["cli"] = [t EXCEPT !.phase = "done",
                        !.body = bodyResult, !.trace = t.trace \o <<"commit", "rollback">>]]
              [] bodyResult = "Exception" ->
                 /\ call' = Call("cli", "transaction_exit", connected,
                        Raised(IF rollbackR.raised THEN rollbackR.error
                               ELSE <<"BodyError", "body">>,
                               <<"rollback">>))
                 /\ txn' = [txn EXCEPT !["cli"] = [t EXCEPT !.phase = "done",
                        !.body = bodyResult, !.trace = t.trace \o <<"rollback">>]]
              [] OTHER ->
                 /\ call' = Call("cli", "transaction_exit", connected,
                                     Raised(<<"BodyBaseException", "body">>, <<>>))
                 /\ txn' = [txn EXCEPT !["cli"] = [t EXCEPT !.phase = "done",
                        !.body = bodyResult]]
    /\ UNCHANGED <<connected, conn, dbi_conn, handle_active, uncommitted, committed>>
    /\ UNCHANGED nonDbVars

----------------------------------------------------------------------------
(* DB2LibraryAdapter: the native database backend *)

\* is_connected: _conn is set and ibm_db.active(_conn) is true (an exception
\* of ibm_db.active counts as not active)
DB2LibraryAdapter_is_connected == conn # "None" /\ handle_active

\* a call on self._dbi_conn: AttributeError when _dbi_conn is None,
\* otherwise whatever the library call does
dbi_call(name, out) ==
    IF dbi_conn = "None"
    THEN [raised |-> TRUE, error |-> <<"AttributeError", name>>, issued |-> <<>>]
    ELSE IF out = "raise"
    THEN [raised |-> TRUE, error |-> <<"NativeError", name>>, issued |-> <<name>>]
    ELSE [raised |-> FALSE, error |-> NoError, issued |-> <<name>>]

DB2LibraryAdapter_connect ==
    \E connectOut \in NativeOutcomes, dbiOut \in NativeOutcomes :
        /\ IF connectOut = "raise"
           THEN /\ UNCHANGED <<conn, dbi_conn, handle_active, uncommitted>>
                /\ call' = Call("native", "connect", DB2LibraryAdapter_is_connected,
                                    Returned("False", 0, <<"ibm_db.connect">>))
           ELSE /\ conn' = "handle"
                /\ handle_active' = TRUE
                /\ uncommitted' = 0
                /\ dbi_conn' = (IF dbiOut = "raise" THEN dbi_conn ELSE "handle")
                /\ call' = Call("native", "connect", DB2LibraryAdapter_is_connected,
                                    Returned(PyBool(dbiOut = "ok"), 0,
                                             <<"ibm_db.connect", "ibm_db_dbi.Connection">>))
        /\ UNCHANGED <<connected, committed, txn>>
        /\ UNCHANGED nonDbVars

DB2LibraryAdapter_disconnect ==
    \E dbiOut \in NativeOutcomes, closeOut \in NativeOutcomes :
        LET dbiRaised == dbi_conn # "None" /\ dbiOut = "raise"
            closeTried == ~dbiRaised /\ conn # "None"
            closed == closeTried /\ closeOut = "ok"
        IN  /\ dbi_conn' = (IF dbiRaised THEN dbi_conn ELSE "None")
            /\ conn' = (IF closed THEN "None" ELSE conn)
            /\ handle_active' = (IF closed THEN FALSE ELSE handle_active)
            /\ uncommitted' = (IF closed THEN 0 ELSE uncommitted)
            /\ call' = Call("native", "disconnect", DB2LibraryAdapter_is_connected,
                    Returned("None", 0,
                        (IF dbi_conn # "None" THEN <<"dbi.close">> ELSE <<>>)
                        \o (IF closeTried THEN <<"ibm_db.close">> ELSE <<>>)))
            /\ UNCHANGED <<connected, committed, txn>>
            /\ UNCHANGED nonDbVars

ExecuteQueryNative(out, rows) ==
    LET r == dbi_call("execute", out)
    IN  IF ~DB2LibraryAdapter_is_connected THEN Raised(NotConnectedError, <<>>)
        ELSE IF r.raised THEN Raised(r.error, r.issued)
        ELSE Returned("rows", rows, r.issued)

DbFrameNative == UNCHANGED <<connected, conn, dbi_conn, handle_active, uncommitted, committed, txn>>

DB2LibraryAdapter_execute_query ==
    \E out \in NativeOutcomes, rows \in 0..MaxRows :
        /\ call' = Call("native", "execute_query", DB2LibraryAdapter_is_connected,
                            ExecuteQueryNative(out, rows))
        /\ DbFrameNative
        /\ UNCHANGED nonDbVars

DB2LibraryAdapter_get_table_info ==
    \E out \in NativeOutcomes, rows \in 0..MaxRows :
        /\ call' = Call("native", "get_table_info", DB2LibraryAdapter_is_connected,
                            ExecuteQueryNative(out, rows))
        /\ DbFrameNative
        /\ UNCHANGED nonDbVars

DB2LibraryAdapter_get_database_info ==
    \E out \in NativeOutcomes, rows \in 0..MaxRows :
        LET q == ExecuteQueryNative(out, rows)
            r == IF q.outcome = "raise" THEN q
                 ELSE IF q.count > 0
                 THEN [Returned("row", 1, q.invocations) EXCEPT !.outs = q.outs, !.created = q.created,
                                                   !.files = q.files]
                 ELSE [Returned("{}", 0, q.invocations) EXCEPT !.outs = q.outs, !.created = q.created,
                                                   !.files = q.files]
        IN  /\ call' = Call("native", "get_database_info",
                                DB2LibraryAdapter_is_connected, r)
            /\ DbFrameNative
            /\ UNCHANGED nonDbVars

DB2LibraryAdapter_test_connection ==
    \E out \in NativeOutcomes, rows \in 0..MaxRows :
        LET q == ExecuteQueryNative(out, rows)
            r == IF q.outcome = "raise"
                 THEN [Returned("False", 0, q.invocations) EXCEPT !.outs = q.outs, !.created = q.created,
                                                   !.files = q.files]
                 ELSE [Returned(PyBool(q.count > 0), 0, q.invocations) EXCEPT !.outs = q.outs, !.created = q.created,
                                                   !.files = q.files]
        IN  /\ call' = Call("native", "test_connection",
                                DB2LibraryAdapter_is_connected, r)
            /\ DbFrameNative
            /\ UNCHANGED nonDbVars

\* execute_update: cursor.execute, then a commit of the connection, whether
\* or not a transaction scope is open
DB2LibraryAdapter_execute_update ==
    /\ committed + uncommitted < MaxStatements
    /\ \E run \in {x \in NativeOutcomes \X NativeOutcomes : x[1] = "raise" => x[2] = "ok"} :
        LET execOut == run[1]
            commitOut == run[2]
            e == dbi_call("execute", execOut)
            c == dbi_call("commit", commitOut)
            was == DB2LibraryAdapter_is_connected
        IN  IF ~was
            THEN /\ call' = Call("native", "execute_update", was,
                                     Raised(NotConnectedError, <<>>))
                 /\ UNCHANGED <<uncommitted, committed>>
            ELSE IF e.raised
            THEN /\ call' = Call("native", "execute_update", was,
                                     Raised(e.error, e.issued))
                 /\ UNCHANGED <<uncommitted, committed>>
            ELSE IF c.raised
            THEN /\ call' = Call("native", "execute_update", was,
                                     Raised(c.error, e.issued \o c.issued))
                 /\ uncommitted' = uncommitted + 1
                 /\ committed' = committed
            ELSE /\ call' = Call("native", "execute_update", was,
                                     Returned("int", 1, e.issued \o c.issued))
                 /\ uncommitted' = 0
                 /\ committed' = committed + uncommitted + 1
    /\ UNCHANGED <<connected, conn, dbi_conn, handle_active, txn>>
    /\ UNCHANGED nonDbVars

\* execute_batch: every statement on one cursor, one commit at the end; any
\* exception goes to the handler that calls rollback and re-raises
DB2LibraryAdapter_execute_batch ==
    \E n \in 0..MaxBatch :
        /\ committed + uncommitted + n <= MaxStatements
        /\ \E x \in BatchRunsNative(n) :
            LET outs == x.stmts
                commitOut == x.commit
                rollbackOut == x.rollback
                was == DB2LibraryAdapter_is_connected
                failing == {i \in 1..Len(outs) : outs[i] = "raise"}
                tried == Len(outs)
                done == IF failing = {} THEN n ELSE Min(failing) - 1
                c == dbi_call("commit", commitOut)
                rb == dbi_call("rollback", rollbackOut)
                tryError == IF failing # {} THEN <<"NativeError", "execute">>
                            ELSE IF c.raised THEN c.error ELSE NoError
                invocations == Repeat("execute", tried)
                               \o (IF failing = {} THEN c.issued ELSE <<>>)
                               \o (IF tryError # NoError THEN rb.issued ELSE <<>>)
                r == IF tryError = NoError THEN Returned("list", n, invocations)
                     ELSE IF rb.raised THEN Raised(rb.error, invocations)
                     ELSE Raised(tryError, invocations)
            IN  IF ~was
                THEN /\ call' = Call("native", "execute_batch", was,
                                         Raised(NotConnectedError, <<>>))
                     /\ UNCHANGED <<uncommitted, committed>>
                ELSE IF dbi_conn = "None"
                THEN /\ call' = Call("native", "execute_batch", was,
                                         Raised(<<"AttributeError", "rollback">>, <<>>))
                     /\ UNCHANGED <<uncommitted, committed>>
                ELSE /\ call' = Call("native", "execute_batch", was,
                                         [r EXCEPT !.stmts = outs])
                     /\ uncommitted' = (IF tryError = NoError THEN 0
                                        ELSE IF rb.raised THEN uncommitted + done
                                        ELSE 0)
                     /\ committed' = (IF tryError = NoError
                                      THEN committed + uncommitted + done
                                      ELSE committed)
        /\ UNCHANGED <<connected, conn, dbi_conn, handle_active, txn>>
        /\ UNCHANGED nonDbVars

\* transaction(), up to the yield: the guard and a debug log line
DB2LibraryAdapter_transaction_enter ==
    /\ txn["native"].phase # "body"
    /\ IF ~DB2LibraryAdapter_is_connected
       THEN /\ call' = Call("native", "transaction", FALSE,
                                Raised(NotConnectedError, <<>>))
            /\ txn' = txn
       ELSE /\ call' = Call("native", "transaction", TRUE, Returned("scope", 0, <<>>))
            /\ txn' = [txn EXCEPT !["native"] =
                   [NoTxn EXCEPT !.phase = "body", !.trace = <<"body">>,
                                 !.committed_at_enter = committed]]
    /\ UNCHANGED <<connected, conn, dbi_conn, handle_active, uncommitted, committed>>
    /\ UNCHANGED nonDbVars

\* transaction(), after the yield: the body has ended with bodyResult
DB2LibraryAdapter_transaction_exit ==
    /\ txn["native"].phase = "body"
    /\ \E run \in TxnExitRuns(NativeOutcomes, {"raise"}) :
        LET bodyResult == run[1]
            commitOut == run[2]
            rollbackOut == run[3]
            c == dbi_call("commit", commitOut)
            rb == dbi_call("rollback", rollbackOut)
            t == txn["native"]
            was == DB2LibraryAdapter_is_connected
        IN  CASE bodyResult = "normal" /\ ~c.raised ->
                 /\ call' = Call("native", "transaction_exit", was,
                                     Returned("None", 0, c.issued))
                 /\ txn' = [txn EXCEPT !["native"] = [t EXCEPT !.phase = "done",
                        !.body = bodyResult, !.trace = t.trace \o c.issued]]
                 /\ committed' = committed + uncommitted
                 /\ uncommitted' = 0
              [] bodyResult = "normal" /\ c.raised ->
                 /\ call' = Call("native", "transaction_exit", was,
                        Raised(IF rb.raised THEN rb.error ELSE c.error,
                               c.issued \o rb.issued))
                 /\ txn' = [txn EXCEPT !["native"] = [t EXCEPT !.phase = "done",
                        !.body = bodyResult, !.trace = t.trace \o c.issued \o rb.issued]]
                 /\ committed' = committed
                 /\ uncommitted' = (IF rb.raised THEN uncommitted ELSE 0)
              [] bodyResult = "Exception" ->
                 /\ call' = Call("native", "transaction_exit", was,
                        Raised(IF rb.raised THEN rb.error ELSE <<"BodyError", "body">>,
                               rb.issued))
                 /\ txn' = [txn EXCEPT !["native"] = [t EXCEPT !.phase = "done",
                        !.body = bodyResult, !.trace = t.trace \o rb.issued]]
                 /\ committed' = committed
                 /\ uncommitted' = (IF rb.raised THEN uncommitted ELSE 0)
              [] OTHER ->
                 /\ call' = Call("native", "transaction_exit", was,
                                     Raised(<<"BodyBaseException", "body">>, <<>>))
                 /\ txn' = [txn EXCEPT !["native"] = [t EXCEPT !.phase = "done",
                        !.body = bodyResult]]
                 /\ UNCHANGED <<committed, uncommitted>>
    /\ UNCHANGED <<connected, conn, dbi_conn, handle_active>>
    /\ UNCHANGED nonDbVars

----------------------------------------------------------------------------
(* MQManager: the command-line messaging backend *)

Messages == {"m1", "m2"}

MaxQueue == 2

\* what the inspect tool prints for the depth field: a separate integer
\* token after CURDEPTH, or anything else
DepthOutputs == {"parsable", "unparsable"}

\* _execute_mq_command: the result dictionary, or the exception it raises
execute_mq_command(command, out) ==
    CASE out = "timeout" -> [raised |-> TRUE, success |-> FALSE,
                             error |-> <<"CommandTimeout", command>>]
      [] out = "oserror" -> [raised |-> TRUE, success |-> FALSE,
                             error |-> <<"CommandError", command>>]
      [] OTHER -> [raised |-> FALSE, success |-> (out = "ok"), error |-> NoError]

\* subprocess.run called directly (amqsput, amqsget): its exceptions are
\* not wrapped
run_tool(tool, out) ==
    CASE out = "timeout" -> [raised |-> TRUE, success |-> FALSE,
                             error |-> <<"TimeoutExpired", tool>>]
      [] out = "oserror" -> [raised |-> TRUE, success |-> FALSE,
                             error |-> <<"OSError", tool>>]
      [] OTHER -> [raised |-> FALSE, success |-> (out = "ok"), error |-> NoError]

MQManager_is_connected == mq_connected

\* MQCLIAdapter.is_connected: "return self._impl.is_connected()"
MQCLIAdapter_is_connected == MQManager_is_connected

MqFrameCLI == UNCHANGED <<mq_connected, qmgr, qmgr_live>>

MQManager_connect ==
    \E out \in ToolOutcomes :
        LET r == execute_mq_command("display qmgr", out)
            ok == ~r.raised /\ r.success
        IN  /\ mq_connected' = (IF ok THEN TRUE ELSE mq_connected)
            /\ call' = Call("mqcli", "connect", MQManager_is_connected,
                            Ran(Returned(PyBool(ok), 0, <<"display qmgr">>), <<out>>))
            /\ UNCHANGED <<qmgr, qmgr_live, queue>>
            /\ UNCHANGED nonMqVars

MQManager_disconnect ==
    /\ mq_connected' = FALSE
    /\ call' = Call("mqcli", "disconnect", MQManager_is_connected, Returned("None", 0, <<>>))
    /\ UNCHANGED <<qmgr, qmgr_live, queue>>
    /\ UNCHANGED nonMqVars

\* put_message: amqsput is run with the message on its input; every failure
\* inside the try block is turned into the return value False.  A run that
\* timed out may or may not have put the message; a full queue makes the
\* tool fail.
PutMessageCLI(q, message, out, landed) ==
    LET r == run_tool("amqsput", out)
        put == landed /\ Len(q) < MaxQueue
    IN  [result |-> Ran(IF ~MQManager_is_connected THEN Raised(NotConnectedError, <<>>)
                        ELSE IF ~r.raised /\ r.success /\ Len(q) < MaxQueue
                        THEN Returned("True", 0, <<"amqsput">>)
                        ELSE Returned("False", 0, <<"amqsput">>),
                        <<out>>),
         queue |-> IF MQManager_is_connected /\ put THEN Append(q, message) ELSE q]

\* get_message: amqsget is run; a zero exit code with output is a message,
\* everything else that returns is "no message"; exceptions are re-raised
GetMessageCLI(q, out) ==
    LET r == run_tool("amqsget", out)
    IN  IF ~MQManager_is_connected
        THEN [result |-> Raised(NotConnectedError, <<>>), queue |-> q]
        ELSE IF r.raised
        THEN [result |-> Ran(Raised(r.error, <<"amqsget">>), <<out>>), queue |-> q]
        ELSE IF r.success /\ q # <<>>
        THEN [result |-> Ran([Returned("message", 0, <<"amqsget">>) EXCEPT !.msg = Head(q)],
                             <<out>>),
              queue |-> Tail(q)]
        ELSE [result |-> Ran(Returned("None", 0, <<"amqsget">>), <<out>>), queue |-> q]

\* the runs of a put: whether the message landed matters only for a timeout
PutRuns == {x \in ToolOutcomes \X BOOLEAN : x[2] = (x[1] \in {"ok", "timeout"}) \/ x[1] = "timeout"}

MQManager_put_message ==
    /\ \E message \in Messages, run \in PutRuns :
        LET p == PutMessageCLI(queue, message, run[1], run[2])
        IN  /\ queue' = p.queue
            /\ call' = Call("mqcli", "put_message", MQManager_is_connected, p.result)
    /\ MqFrameCLI
    /\ UNCHANGED nonMqVars

MQManager_get_message ==
    /\ \E out \in ToolOutcomes :
        LET g == GetMessageCLI(queue, out)
        IN  /\ queue' = g.queue
            /\ call' = Call("mqcli", "get_message", MQManager_is_connected, g.result)
    /\ MqFrameCLI
    /\ UNCHANGED nonMqVars

\* browse_message: get_message, then put_message of what was got (its
\* result is not looked at)
MQManager_browse_message ==
    /\ \E getOut \in ToolOutcomes, run \in PutRuns :
        LET g == GetMessageCLI(queue, getOut)
            p == PutMessageCLI(g.queue, g.result.msg, run[1], run[2])
        IN  IF g.result.outcome = "return" /\ g.result.value = "message"
            THEN /\ queue' = p.queue
                 /\ call' = Call("mqcli", "browse_message", MQManager_is_connected,
                        Ran([g.result EXCEPT !.invocations = <<"amqsget", "amqsput">>],
                            <<getOut, run[1]>>))
            ELSE /\ run = <<"ok", TRUE>>
                 /\ queue' = g.queue
                 /\ call' = Call("mqcli", "browse_message", MQManager_is_connected, g.result)
    /\ MqFrameCLI
    /\ UNCHANGED nonMqVars

\* the words of the line the inspect tool prints for a queue of depth n
DepthTokens(shape, n) ==
    IF shape = "parsable"
    THEN <<"QUEUE(Q)", "CURDEPTH", ToString(n)>>
    ELSE <<"QUEUE(Q)", "CURDEPTH", "notanumber">>

\* whether int(word) returns (it raises ValueError for a word that spells
\* no number)
IntAccepts(word) == \E n \in 0..(MaxQueue + 1) : ToString(n) = word

\* int(word) for a word it accepts
IntOf(word) == CHOOSE n \in 0..(MaxQueue + 1) : ToString(n) = word

\* a word that is not a number reported as a failed inspection
ParseCurdepth_failAsMinusOne(tokens) ==
    LET hits == {i \in 1..(Len(tokens) - 1) : tokens[i] = "CURDEPTH"}
    IN  IF \E i \in hits : IntAccepts(tokens[i + 1])
        THEN IntOf(tokens[Min({i \in hits : IntAccepts(tokens[i + 1])}) + 1])
        ELSE -1

\* the scan of the output for the word CURDEPTH followed by a word that
\* int() accepts: the first such number, 0 when there is none
ParseCurdepth(tokens) ==
    LET hits == {i \in 1..(Len(tokens) - 1) : tokens[i] = "CURDEPTH"}
    IN  IF \E i \in hits : IntAccepts(tokens[i + 1])
        THEN IntOf(tokens[Min({i \in hits : IntAccepts(tokens[i + 1])}) + 1])
        ELSE 0

\* the connection check made inside the try block, so that its exception is
\* turned into -1 like every other failure
GetQueueDepthCLI_guardInTry(q, out, shape) ==
    LET r == execute_mq_command("display queue", out)
    IN  IF ~MQManager_is_connected THEN Returned("int", -1, <<>>)
        ELSE IF r.raised \/ ~r.success
        THEN Ran(Returned("int", -1, <<"display queue">>), <<out>>)
        ELSE [Ran(Returned("int", ParseCurdepth(DepthTokens(shape, Len(q))),
                           <<"display queue">>), <<out>>)
                EXCEPT !.stdout = DepthTokens(shape, Len(q))]

\* get_queue_depth: the integer token that follows the token CURDEPTH in the
\* tool's output, 0 without one, -1 when the invocation failed
GetQueueDepthCLI(q, out, shape) ==
    LET r == execute_mq_command("display queue", out)
    IN  IF ~MQManager_is_connected THEN Raised(NotConnectedError, <<>>)
        ELSE IF r.raised \/ ~r.success
        THEN Ran(Returned("int", -1, <<"display queue">>), <<out>>)
        ELSE [Ran(Returned("int", ParseCurdepth(DepthTokens(shape, Len(q))),
                           <<"display queue">>), <<out>>)
                EXCEPT !.stdout = DepthTokens(shape, Len(q))]

DepthRuns == {x \in ToolOutcomes \X DepthOutputs : x[1] # "ok" => x[2] = "parsable"}

MQManager_get_queue_depth ==
    /\ \E run \in DepthRuns :
        call' = Call("mqcli", "get_queue_depth", MQManager_is_connected,
                     GetQueueDepthCLI(queue, run[1], run[2]))
    /\ UNCHANGED queue
    /\ MqFrameCLI
    /\ UNCHANGED nonMqVars

\* the depth returned as it was read
PurgeCount_unclamped(initial_depth) == initial_depth

\* max(0, initial_depth)
PurgeCount(initial_depth) == IF initial_depth < 0 THEN 0 ELSE initial_depth

\* purge_queue: the depth is read, the queue is cleared, the depth read
\* before (at least 0) is returned
MQManager_purge_queue ==
    /\ \E run \in DepthRuns, clearOut \in ToolOutcomes :
        LET d == GetQueueDepthCLI(queue, run[1], run[2])
            c == execute_mq_command("clear queue", clearOut)
            inv == <<"display queue", "clear queue">>
            outs == <<run[1], clearOut>>
        IN  IF ~MQManager_is_connected
            THEN /\ queue' = queue
                 /\ call' = Call("mqcli", "purge_queue", FALSE, Raised(NotConnectedError, <<>>))
            ELSE IF c.raised
            THEN /\ queue' = queue
                 /\ call' = Call("mqcli", "purge_queue", TRUE, Ran(Raised(c.error, inv), outs))
            ELSE IF ~c.success
            THEN /\ queue' = queue
                 /\ call' = Call("mqcli", "purge_queue", TRUE,
                                 Ran(Raised(<<"PurgeFailed", "clear queue">>, inv), outs))
            ELSE /\ queue' = <<>>
                 /\ call' = Call("mqcli", "purge_queue", TRUE,
                                 [Ran(Returned("int", PurgeCount(d.count), inv), outs)
                                    EXCEPT !.stdout = d.stdout])
    /\ MqFrameCLI
    /\ UNCHANGED nonMqVars

\* a successful inspection recorded in the connected flag
MQManager_test_connection_setsConnected ==
    /\ \E out \in ToolOutcomes :
        LET r == execute_mq_command("display qmgr", out)
        IN  /\ mq_connected' = (mq_connected \/ (~r.raised /\ r.success))
            /\ call' = Call("mqcli", "test_connection", MQManager_is_connected,
                            Ran(Returned(PyBool(~r.raised /\ r.success), 0, <<"display qmgr">>),
                                <<out>>))
    /\ UNCHANGED <<queue, qmgr, qmgr_live>>
    /\ UNCHANGED nonMqVars

\* test_connection: the qmgr inspection is run whatever the connected flag
MQManager_test_connection ==
    /\ \E out \in ToolOutcomes :
        LET r == execute_mq_command("display qmgr", out)
        IN  call' = Call("mqcli", "test_connection", MQManager_is_connected,
                         Ran(Returned(PyBool(~r.raised /\ r.success), 0, <<"display qmgr">>),
                             <<out>>))
    /\ UNCHANGED queue
    /\ MqFrameCLI
    /\ UNCHANGED nonMqVars

----------------------------------------------------------------------------
(* MQLibraryAdapter: the native messaging backend *)

\* is_connected: _qmgr is set and its is_connected property is true (an
\* exception of the property counts as not connected)
MQLibraryAdapter_is_connected == qmgr # "None" /\ qmgr_live

\* how a native get can end: a message, MQRC_NO_MSG_AVAILABLE, another error
GetOutcomes == {"ok", "no_msg", "raise"}

MqFrameNative == UNCHANGED <<mq_connected, qmgr, qmgr_live>>

MQLibraryAdapter_connect ==
    \E out \in NativeOutcomes :
        /\ IF out = "ok"
           THEN qmgr' = "handle" /\ qmgr_live' = TRUE
           ELSE UNCHANGED <<qmgr, qmgr_live>>
        /\ call' = Call("mqnative", "connect", MQLibraryAdapter_is_connected,
                        Returned(PyBool(out = "ok"), 0, <<"pymqi.connect">>))
        /\ UNCHANGED <<mq_connected, queue>>
        /\ UNCHANGED nonMqVars

\* disconnect: _qmgr.disconnect() and then _qmgr = None; when the library
\* call raises, _qmgr is kept and the handle may or may not still be live
MQLibraryAdapter_disconnect ==
    \E out \in NativeOutcomes, live \in BOOLEAN :
        /\ (out = "ok" \/ qmgr = "None" \/ ~qmgr_live) => ~live
        /\ IF qmgr # "None" /\ out = "raise"
           THEN qmgr' = qmgr /\ qmgr_live' = live
           ELSE qmgr' = "None" /\ qmgr_live' = FALSE
        /\ call' = Call("mqnative", "disconnect", MQLibraryAdapter_is_connected,
                        Returned("None", 0,
                                 IF qmgr # "None" THEN <<"qmgr.disconnect">> ELSE <<>>))
        /\ UNCHANGED <<mq_connected, queue>>
        /\ UNCHANGED nonMqVars

\* put_message: every failure inside the try block is turned into the
\* return value False; a full queue makes the broker refuse the put
MQLibraryAdapter_put_message ==
    /\ \E message \in Messages, out \in NativeOutcomes :
        LET ok == out = "ok" /\ Len(queue) < MaxQueue
        IN  IF ~MQLibraryAdapter_is_connected
            THEN /\ queue' = queue
                 /\ call' = Call("mqnative", "put_message", FALSE,
                                 Raised(NotConnectedError, <<>>))
            ELSE /\ queue' = (IF ok THEN Append(queue, message) ELSE queue)
                 /\ call' = Call("mqnative", "put_message", TRUE,
                                 Returned(PyBool(ok), 0, <<"queue.put">>))
    /\ MqFrameNative
    /\ UNCHANGED nonMqVars

\* a native get or browse on the queue q: the broker answers "ok" only when
\* it holds a message and "no_msg" only when it holds none
NativeGet(q, out, name, remove) ==
    IF out = "raise"
    THEN [result |-> Ran(Raised(<<"NativeError", name>>, <<name>>), <<out>>), queue |-> q]
    ELSE IF q = <<>>
    THEN [result |-> Ran(Returned("None", 0, <<name>>), <<out>>), queue |-> q]
    ELSE [result |-> Ran([Returned("message", 0, <<name>>) EXCEPT !.msg = Head(q)], <<out>>),
          queue |-> IF remove THEN Tail(q) ELSE q]

GetRuns(q) == IF q = <<>> THEN {"no_msg", "raise"} ELSE {"ok", "raise"}

MQLibraryAdapter_get_message ==
    /\ \E out \in GetRuns(queue) :
        LET g == NativeGet(queue, out, "queue.get", TRUE)
        IN  IF ~MQLibraryAdapter_is_connected
            THEN /\ queue' = queue
                 /\ call' = Call("mqnative", "get_message", FALSE,
                                 Raised(NotConnectedError, <<>>))
            ELSE /\ queue' = g.queue
                 /\ call' = Call("mqnative", "get_message", TRUE, g.result)
    /\ MqFrameNative
    /\ UNCHANGED nonMqVars

MQLibraryAdapter_browse_message ==
    /\ \E out \in GetRuns(queue) :
        LET g == NativeGet(queue, out, "queue.browse", FALSE)
        IN  IF ~MQLibraryAdapter_is_connected
            THEN /\ queue' = queue
                 /\ call' = Call("mqnative", "browse_message", FALSE,
                                 Raised(NotConnectedError, <<>>))
            ELSE /\ queue' = g.queue
                 /\ call' = Call("mqnative", "browse_message", TRUE, g.result)
    /\ MqFrameNative
    /\ UNCHANGED nonMqVars

MQLibraryAdapter_get_queue_depth ==
    /\ \E out \in NativeOutcomes :
        call' = Call("mqnative", "get_queue_depth", MQLibraryAdapter_is_connected,
                     IF ~MQLibraryAdapter_is_connected THEN Raised(NotConnectedError, <<>>)
                     ELSE IF out = "raise" THEN Returned("int", -1, <<"queue.inquire">>)
                     ELSE Returned("int", Len(queue), <<"queue.inquire">>))
    /\ UNCHANGED queue
    /\ MqFrameNative
    /\ UNCHANGED nonMqVars

\* whether a get of the purge loop finds a message on q.  All gets of the
\* loop pass the one descriptor md made before the loop, and pymqi writes the
\* descriptor of the message it got back into md: from the second get on md
\* carries the MsgId of the message just removed, the broker matches on a
\* MsgId that is set, and no message left on the queue has that MsgId
PurgeGetFinds(q, gets_done) == q # <<>> /\ gets_done = 0

RECURSIVE PurgeLoopNative(_, _, _)

\* the "while True" loop of purge_queue on the queue q after gets_done
\* successful gets: a get that finds a message counts it and the loop goes
\* on, MQRC_NO_MSG_AVAILABLE ends the loop, any other error (at the get
\* numbered errorAt, 0 for none) is raised
PurgeLoopNative(q, gets_done, errorAt) ==
    IF errorAt = gets_done + 1
    THEN [raised |-> TRUE, purged_count |-> gets_done, gets |-> gets_done + 1, queue |-> q]
    ELSE IF PurgeGetFinds(q, gets_done)
    THEN PurgeLoopNative(Tail(q), gets_done + 1, errorAt)
    ELSE [raised |-> FALSE, purged_count |-> gets_done, gets |-> gets_done + 1, queue |-> q]

\* purge_queue: get with no wait until MQRC_NO_MSG_AVAILABLE, counting the
\* messages got; another error ends the loop and is raised
MQLibraryAdapter_purge_queue ==
    /\ \E errorAt \in 0..PurgeLoopNative(queue, 0, 0).gets :
        LET p == PurgeLoopNative(queue, 0, errorAt)
        IN  IF ~MQLibraryAdapter_is_connected
            THEN /\ errorAt = 0
                 /\ queue' = queue
                 /\ call' = Call("mqnative", "purge_queue", FALSE,
                                 Raised(NotConnectedError, <<>>))
            ELSE /\ queue' = p.queue
                 /\ call' = Call("mqnative", "purge_queue", TRUE,
                        IF p.raised
                        THEN Raised(<<"NativeError", "queue.get">>, Repeat("queue.get", p.gets))
                        ELSE Returned("int", p.purged_count, Repeat("queue.get", p.gets)))
    /\ MqFrameNative
    /\ UNCHANGED nonMqVars

\* test_connection: a PCF inquiry when _qmgr is set, False otherwise; the
\* inquiry cannot succeed on a handle that is no longer live
MQLibraryAdapter_test_connection ==
    /\ \E out \in NativeOutcomes :
        /\ (qmgr # "None" /\ ~qmgr_live) => out = "raise"
        /\ call' = Call("mqnative", "test_connection", MQLibraryAdapter_is_connected,
                     IF qmgr = "None" THEN Returned("False", 0, <<>>)
                     ELSE Returned(PyBool(out = "ok"), 0, <<"pcf.inquire">>))
    /\ UNCHANGED queue
    /\ MqFrameNative
    /\ UNCHANGED nonMqVars

----------------------------------------------------------------------------
(* Component lifecycle: ComponentBase.start *)

MaxStarts == 2

\* how a call of initialize() or run() of a component class can end: the
\* value it returned, or the class of what it raised
HookOutcomes == {"True", "False", "None", "Exception", "KeyboardInterrupt", "SystemExit"}

\* how a call of cleanup() can end
CleanupOutcomes == {"None", "Exception", "KeyboardInterrupt", "SystemExit"}

HookRaised(o) == o \in {"Exception", "KeyboardInterrupt", "SystemExit"}

\* what "except Exception" catches: KeyboardInterrupt and SystemExit derive
\* from BaseException only
CaughtByExceptException(o) == o = "Exception"

\* "not self.initialize()" / "not self.run()" for a returned value
Falsy(o) == o \in {"False", "None"}

NoStartResult == [outcome |-> "none", value |-> "none"]

StartReturns(v) == [outcome |-> "return", value |-> PyBool(v)]

StartRaises(o) == [outcome |-> "raise", value |-> o]

\* run called whatever initialize returned
AfterHook_runsRegardless(hook, o) ==
    IF HookRaised(o)
    THEN IF CaughtByExceptException(o)
         THEN [pc |-> "finally", pending |-> StartReturns(FALSE), logged |-> <<"error">>]
         ELSE [pc |-> "finally", pending |-> StartRaises(o), logged |-> <<>>]
    ELSE IF hook = "initialize"
         THEN [pc |-> "run", pending |-> NoStartResult, logged |-> <<>>]
         ELSE IF Falsy(o)
              THEN [pc |-> "finally", pending |-> StartReturns(FALSE), logged |-> <<"error">>]
              ELSE [pc |-> "finally", pending |-> StartReturns(TRUE), logged |-> <<"info">>]

\* what the try block of start does with the way a hook ended: the handler
\* of "except Exception" logs and returns False, any other raised class is
\* left to propagate, a falsy value logs and returns False, a truthy value of
\* initialize leads on to run and a truthy value of run logs and returns True;
\* every way out of the try block passes through the finally block
AfterHook(hook, o) ==
    IF HookRaised(o)
    THEN IF CaughtByExceptException(o)
         THEN [pc |-> "finally", pending |-> StartReturns(FALSE), logged |-> <<"error">>]
         ELSE [pc |-> "finally", pending |-> StartRaises(o), logged |-> <<>>]
    ELSE IF Falsy(o)
         THEN [pc |-> "finally", pending |-> StartReturns(FALSE), logged |-> <<"error">>]
         ELSE IF hook = "initialize"
              THEN [pc |-> "run", pending |-> NoStartResult, logged |-> <<>>]
              ELSE [pc |-> "finally", pending |-> StartReturns(TRUE), logged |-> <<"info">>]

\* whatever cleanup raises leaves start
AfterCleanup_propagates(pending, c) ==
    IF HookRaised(c) THEN StartRaises(c) ELSE pending

\* the finally block: an Exception of cleanup is caught and logged, and start
\* goes on to what was pending; any other raised class replaces it
AfterCleanup(pending, c) ==
    IF HookRaised(c) /\ ~CaughtByExceptException(c) THEN StartRaises(c) ELSE pending

ComponentStart ==
    /\ start_pc = "idle"
    /\ hook_calls = <<>>
    /\ start_pending = NoStartResult
    /\ start_result = NoStartResult
    /\ component_log = <<>>
    /\ starts = 0

\* start is called: "Starting component" is logged and initialize is next
ComponentBase_start ==
    /\ start_pc = "idle"
    /\ starts < MaxStarts
    /\ start_pc' = "initialize"
    /\ hook_calls' = <<>>
    /\ start_pending' = NoStartResult
    /\ start_result' = NoStartResult
    /\ component_log' = <<"info">>
    /\ starts' = starts + 1
    /\ UNCHANGED nonComponentVars

\* "if not self.initialize()"
ComponentBase_start_initialize ==
    /\ start_pc = "initialize"
    /\ \E o \in HookOutcomes :
        LET a == AfterHook("initialize", o)
        IN  /\ hook_calls' = Append(hook_calls, <<"initialize", o>>)
            /\ start_pc' = a.pc
            /\ start_pending' = a.pending
            /\ component_log' = component_log \o a.logged
    /\ UNCHANGED <<start_result, starts>>
    /\ UNCHANGED nonComponentVars

\* "if not self.run()"
ComponentBase_start_run ==
    /\ start_pc = "run"
    /\ \E o \in HookOutcomes :
        LET a == AfterHook("run", o)
        IN  /\ hook_calls' = Append(hook_calls, <<"run", o>>)
            /\ start_pc' = a.pc
            /\ start_pending' = a.pending
            /\ component_log' = component_log \o a.logged
    /\ UNCHANGED <<start_result, starts>>
    /\ UNCHANGED nonComponentVars

\* the finally block: cleanup is called and start ends
ComponentBase_start_finally ==
    /\ start_pc = "finally"
    /\ \E c \in CleanupOutcomes :
        /\ hook_calls' = Append(hook_calls, <<"cleanup", c>>)
        /\ start_result' = AfterCleanup(start_pending, c)
        /\ component_log' = component_log \o
                               (IF CaughtByExceptException(c) THEN <<"error">> ELSE <<>>)
    /\ start_pc' = "idle"
    /\ UNCHANGED <<start_pending, starts>>
    /\ UNCHANGED nonComponentVars

----------------------------------------------------------------------------
(* Component registry: ComponentRegistry *)

MaxNames == 2

\* the names a caller registers components under
ComponentNames == {ToString(i) : i \in 1..MaxNames}

ComponentClasses == {"ComponentA", "ComponentB"}

NoRegistryCall ==
    [op |-> "none", arg |-> "none", outcome |-> "none", value |-> "none", count |-> 0,
     listed |-> <<>>, before |-> <<>>]

\* a dict is the sequence of its <<key, value>> items in insertion order

\* "key in d"
DictContains(d, key) == \E i \in 1..Len(d) : d[i][1] = key

\* "d[key]" for a key that is in d
DictLookup(d, key) == d[CHOOSE i \in 1..Len(d) : d[i][1] = key][2]

\* "d[key] = value": a new key goes last, an old key keeps its place
DictSet(d, key, value) ==
    IF DictContains(d, key)
    THEN [i \in 1..Len(d) |-> IF d[i][1] = key THEN <<key, value>> ELSE d[i]]
    ELSE Append(d, <<key, value>>)

\* "del d[key]" for a key that is in d
DictDelete(d, key) ==
    LET Kept(item) == item[1] # key
    IN  SelectSeq(d, Kept)

\* "list(d.keys())"
DictKeys(d) == [i \in 1..Len(d) |-> d[i][1]]

\* "len(d)"
DictLen(d) == Len(d)

RegistryStart ==
    /\ components = <<>>
    /\ registered = {}
    /\ rcall = NoRegistryCall

RegistryCall(op, arg) ==
    [NoRegistryCall EXCEPT !.op = op, !.arg = arg, !.before = components,
                           !.outcome = "return", !.value = "None"]

\* a register that replaces what is registered under the name
ComponentRegistry_register_overwrites ==
    /\ \E n \in ComponentNames, component_class \in ComponentClasses :
        /\ components' = DictSet(components, n, component_class)
        /\ registered' = registered \cup {n}
        /\ rcall' = RegistryCall("register", n)
    /\ UNCHANGED nonRegistryVars

ComponentRegistry_register ==
    /\ \E n \in ComponentNames, component_class \in ComponentClasses :
        IF DictContains(components, n)
        THEN /\ rcall' = [RegistryCall("register", n) EXCEPT !.outcome = "raise",
                                                             !.value = "ValueError"]
             /\ UNCHANGED <<components, registered>>
        ELSE /\ components' = DictSet(components, n, component_class)
             /\ registered' = registered \cup {n}
             /\ rcall' = RegistryCall("register", n)
    /\ UNCHANGED nonRegistryVars

ComponentRegistry_unregister ==
    /\ \E n \in ComponentNames :
        IF ~DictContains(components, n)
        THEN /\ rcall' = [RegistryCall("unregister", n) EXCEPT !.outcome = "raise",
                                                               !.value = "KeyError"]
             /\ UNCHANGED <<components, registered>>
        ELSE /\ components' = DictDelete(components, n)
             /\ registered' = registered \ {n}
             /\ rcall' = RegistryCall("unregister", n)
    /\ UNCHANGED nonRegistryVars

ComponentRegistry_get_component ==
    /\ \E n \in ComponentNames :
        rcall' = IF ~DictContains(components, n)
                 THEN [RegistryCall("get_component", n) EXCEPT !.outcome = "raise",
                                                               !.value = "KeyError"]
                 ELSE [RegistryCall("get_component", n) EXCEPT
                           !.value = DictLookup(components, n)]
    /\ UNCHANGED <<components, registered>>
    /\ UNCHANGED nonRegistryVars

ComponentRegistry_list_components ==
    /\ rcall' = [RegistryCall("list_components", "none") EXCEPT
                     !.value = "list", !.listed = DictKeys(components)]
    /\ UNCHANGED <<components, registered>>
    /\ UNCHANGED nonRegistryVars

ComponentRegistry_is_registered ==
    /\ \E n \in ComponentNames :
        rcall' = [RegistryCall("is_registered", n) EXCEPT
                      !.value = PyBool(DictContains(components, n))]
    /\ UNCHANGED <<components, registered>>
    /\ UNCHANGED nonRegistryVars

ComponentRegistry_get_component_count ==
    /\ rcall' = [RegistryCall("get_component_count", "none") EXCEPT
                     !.value = "int", !.count = DictLen(components)]
    /\ UNCHANGED <<components, registered>>
    /\ UNCHANGED nonRegistryVars

ComponentRegistry_clear ==
    /\ components' = <<>>
    /\ registered' = {}
    /\ rcall' = RegistryCall("clear", "none")
    /\ UNCHANGED nonRegistryVars

----------------------------------------------------------------------------
(* Two manager instances in one process *)

ManagerIds == {"m1", "m2"}

NoRows == "[]"

NoQueryOut == [outcome |-> "none", rows |-> "none"]

NoInstanceCall == [inst |-> "none", op |-> "none"]

CommandLineClasses == {"DB2Manager", "MQManager"}

\* is_connected() of instance m: the connected attribute of a Command-Line
\* manager, the handle of a native adapter
InstanceIsConnected(m) ==
    IF inst_class[m] \in CommandLineClasses
    THEN inst_connected[m]
    ELSE inst_handle[m] # "None"

\* the rows the export of instance m's query writes: its own
RowsOf(m) == m

\* _parse_csv_results: the rows found in the file; a file that cannot be
\* opened gives the empty list
ParseResultFile(content) == IF content = "none" THEN NoRows ELSE content

TwoManagersStart ==
    /\ inst_class = [m \in ManagerIds |-> "DB2Manager"]
    /\ inst_connected = [m \in ManagerIds |-> FALSE]
    /\ inst_handle = [m \in ManagerIds |-> "None"]
    /\ query_pc = [m \in ManagerIds |-> "idle"]
    /\ query_pending = [m \in ManagerIds |-> "none"]
    /\ query_out = [m \in ManagerIds |-> NoQueryOut]
    /\ result_file = "none"
    /\ statement_files = {}
    /\ icall = NoInstanceCall

QueryFrame == UNCHANGED <<query_pc, query_pending, query_out, result_file, statement_files>>

\* connected kept in an attribute of the class, seen by every instance
Instance_connect_classLevel ==
    /\ \E m \in ManagerIds, ok \in BOOLEAN :
        /\ query_pc[m] = "idle"
        /\ IF inst_class[m] \in CommandLineClasses
           THEN /\ inst_connected' = IF ok THEN [o \in ManagerIds |-> TRUE] ELSE inst_connected
                /\ UNCHANGED inst_handle
           ELSE /\ inst_handle' = IF ok THEN [o \in ManagerIds |-> "handle"] ELSE inst_handle
                /\ UNCHANGED inst_connected
        /\ icall' = [inst |-> m, op |-> "connect"]
    /\ UNCHANGED inst_class
    /\ QueryFrame
    /\ UNCHANGED nonTwoManagerVars

\* connect of one instance: on success self.connected = True, or self._conn /
\* self._qmgr is set; on failure nothing is assigned
Instance_connect ==
    /\ \E m \in ManagerIds, ok \in BOOLEAN :
        /\ query_pc[m] = "idle"
        /\ IF inst_class[m] \in CommandLineClasses
           THEN /\ inst_connected' = [inst_connected EXCEPT ![m] = IF ok THEN TRUE ELSE @]
                /\ UNCHANGED inst_handle
           ELSE /\ inst_handle' = [inst_handle EXCEPT ![m] = IF ok THEN "handle" ELSE @]
                /\ UNCHANGED inst_connected
        /\ icall' = [inst |-> m, op |-> "connect"]
    /\ UNCHANGED inst_class
    /\ QueryFrame
    /\ UNCHANGED nonTwoManagerVars

\* disconnect of one instance: connected is cleared, or the handle dropped,
\* unless the invocation or the close call raised
Instance_disconnect ==
    /\ \E m \in ManagerIds, raised \in BOOLEAN :
        /\ query_pc[m] = "idle"
        /\ IF inst_class[m] \in CommandLineClasses
           THEN /\ inst_connected' =
                       [inst_connected EXCEPT ![m] = IF raised THEN @ ELSE FALSE]
                /\ UNCHANGED inst_handle
           ELSE /\ inst_handle' = [inst_handle EXCEPT ![m] = IF raised THEN @ ELSE "None"]
                /\ UNCHANGED inst_connected
        /\ icall' = [inst |-> m, op |-> "disconnect"]
    /\ UNCHANGED inst_class
    /\ QueryFrame
    /\ UNCHANGED nonTwoManagerVars

\* any data operation other than a Command-Line execute_query: no connection
\* attribute is assigned
Instance_data_operation ==
    /\ \E m \in ManagerIds :
        /\ query_pc[m] = "idle"
        /\ icall' = [inst |-> m, op |-> "data_operation"]
    /\ UNCHANGED <<inst_class, inst_connected, inst_handle>>
    /\ QueryFrame
    /\ UNCHANGED nonTwoManagerVars

\* execute_query of a Command-Line database manager begins: the guard, then
\* the statement file of this call
DB2Manager_execute_query_begin ==
    /\ \E m \in ManagerIds :
        /\ inst_class[m] = "DB2Manager"
        /\ query_pc[m] = "idle"
        /\ IF InstanceIsConnected(m)
           THEN /\ query_pc' = [query_pc EXCEPT ![m] = "import"]
                /\ statement_files' = statement_files \cup {m}
                /\ query_out' = [query_out EXCEPT ![m] = NoQueryOut]
           ELSE /\ query_out' = [query_out EXCEPT ![m] =
                                     [outcome |-> "raise", rows |-> "none"]]
                /\ UNCHANGED <<query_pc, statement_files>>
        /\ query_pending' = [query_pending EXCEPT ![m] = "none"]
        /\ icall' = [inst |-> m, op |-> "execute_query"]
    /\ UNCHANGED <<inst_class, inst_connected, inst_handle, result_file>>
    /\ UNCHANGED nonTwoManagerVars

\* the "import from" invocation, whose result is not looked at
DB2Manager_execute_query_import ==
    /\ \E m \in ManagerIds :
        /\ query_pc[m] = "import"
        /\ query_pc' = [query_pc EXCEPT ![m] = "export"]
        /\ icall' = [inst |-> m, op |-> "execute_query"]
    /\ UNCHANGED <<inst_class, inst_connected, inst_handle, query_pending, query_out,
                   result_file, statement_files>>
    /\ UNCHANGED nonTwoManagerVars

\* every export writes the one path /tmp/query_result.csv
DB2Manager_execute_query_export ==
    /\ \E m \in ManagerIds :
        /\ query_pc[m] = "export"
        /\ result_file' = RowsOf(m)
        /\ query_pc' = [query_pc EXCEPT ![m] = "parse"]
        /\ icall' = [inst |-> m, op |-> "execute_query"]
    /\ UNCHANGED <<inst_class, inst_connected, inst_handle, query_pending, query_out,
                   statement_files>>
    /\ UNCHANGED nonTwoManagerVars

\* the export succeeded: the file at that path is parsed
DB2Manager_execute_query_parse ==
    /\ \E m \in ManagerIds :
        /\ query_pc[m] = "parse"
        /\ query_pending' = [query_pending EXCEPT ![m] = ParseResultFile(result_file)]
        /\ query_pc' = [query_pc EXCEPT ![m] = "finally"]
        /\ icall' = [inst |-> m, op |-> "execute_query"]
    /\ UNCHANGED <<inst_class, inst_connected, inst_handle, query_out, result_file,
                   statement_files>>
    /\ UNCHANGED nonTwoManagerVars

\* the finally block, then the return of the parsed rows
DB2Manager_execute_query_finally ==
    /\ \E m \in ManagerIds :
        /\ query_pc[m] = "finally"
        /\ statement_files' = statement_files \ {m}
        /\ result_file' = "none"
        /\ query_out' = [query_out EXCEPT ![m] =
                             [outcome |-> "return", rows |-> query_pending[m]]]
        /\ query_pc' = [query_pc EXCEPT ![m] = "idle"]
        /\ icall' = [inst |-> m, op |-> "execute_query"]
    /\ UNCHANGED <<inst_class, inst_connected, inst_handle, query_pending>>
    /\ UNCHANGED nonTwoManagerVars

----------------------------------------------------------------------------
(* Concurrent create calls *)

Threads == {"t1", "t2"}

NoCreateResult == [outcome |-> "none", value |-> "none"]

\* the configurations of the racing calls: either implementation, any
\* auto_fallback
RaceConfigs == {config \in Configs : config.implementation \in {"cli", "library"}}

CreateRaceStart ==
    /\ race_kind = "db2"
    /\ create_pc = [th \in Threads |-> "idle"]
    /\ create_config = [th \in Threads |-> [implementation |-> Absent,
                                             auto_fallback |-> Absent]]
    /\ create_result = [th \in Threads |-> NoCreateResult]

\* a create call begins: the configuration is read and the cache entry is
\* tested with "is None"
create_manager_check ==
    /\ \E th \in Threads, config \in RaceConfigs :
        /\ create_pc[th] = "idle"
        /\ create_config' = [create_config EXCEPT ![th] = config]
        /\ create_result' = [create_result EXCEPT ![th] = NoCreateResult]
        /\ create_pc' = [create_pc EXCEPT ![th] =
                             IF adapter_cache[race_kind] = "None" THEN "probe"
                             ELSE "select"]
    /\ UNCHANGED <<race_kind, adapter_cache>>
    /\ UNCHANGED nonCreateRaceVars

\* the entry was None: the adapter module is imported and its flag stored
create_manager_probe ==
    /\ \E th \in Threads :
        /\ create_pc[th] = "probe"
        /\ adapter_cache' = [adapter_cache EXCEPT ![race_kind] = ProbeLibrary(race_kind)]
        /\ create_pc' = [create_pc EXCEPT ![th] = "select"]
    /\ UNCHANGED <<race_kind, create_config, create_result>>
    /\ UNCHANGED nonCreateRaceVars

\* the selection reads the cache entry again
create_manager_select ==
    /\ \E th \in Threads :
        /\ create_pc[th] = "select"
        /\ LET sel == SelectImplementation(race_kind, create_config[th], FALSE,
                                           adapter_cache[race_kind])
           IN  create_result' = [create_result EXCEPT ![th] =
                                     [outcome |-> sel.made.outcome,
                                      value |-> sel.made.value]]
        /\ create_pc' = [create_pc EXCEPT ![th] = "idle"]
    /\ UNCHANGED <<race_kind, create_config, adapter_cache>>
    /\ UNCHANGED nonCreateRaceVars

----------------------------------------------------------------------------
(* browse_message against another consumer of the queue *)

NoConsumerGet == [value |-> "none", outstanding |-> 0]

BrowseRaceStart ==
    /\ browse_backend = "mqcli"
    /\ browse_pc = "idle"
    /\ browse_held = "none"
    /\ browse_result = "none"
    /\ consumer_got = NoConsumerGet
    /\ outstanding = 0

\* a producer puts a message on the queue
producer_put_message ==
    /\ \E message \in Messages :
        /\ Len(queue) < MaxQueue
        /\ outstanding < MaxQueue
        /\ queue' = Append(queue, message)
        /\ outstanding' = outstanding + 1
    /\ UNCHANGED <<browse_backend, browse_pc, browse_held, browse_result, consumer_got>>
    /\ UNCHANGED nonBrowseRaceVars

\* another consumer's get_message: one destructive get at the broker, null
\* when the queue holds nothing
consumer_get_message ==
    /\ IF queue = <<>>
       THEN /\ consumer_got' = [value |-> "null", outstanding |-> outstanding]
            /\ UNCHANGED <<queue, outstanding>>
       ELSE /\ consumer_got' = [value |-> Head(queue), outstanding |-> outstanding]
            /\ queue' = Tail(queue)
            /\ outstanding' = outstanding - 1
    /\ UNCHANGED <<browse_backend, browse_pc, browse_held, browse_result>>
    /\ UNCHANGED nonBrowseRaceVars

\* Command-Line browse_message, first half: self.get_message(queue_name)
\* takes the head of the queue; no message ends the browse with None
MQManager_browse_message_get ==
    /\ browse_backend = "mqcli"
    /\ browse_pc = "idle"
    /\ IF queue = <<>>
       THEN /\ browse_result' = "null"
            /\ UNCHANGED <<queue, browse_pc, browse_held>>
       ELSE /\ browse_held' = Head(queue)
            /\ queue' = Tail(queue)
            /\ browse_pc' = "putback"
            /\ browse_result' = "none"
    /\ UNCHANGED <<browse_backend, consumer_got, outstanding>>
    /\ UNCHANGED nonBrowseRaceVars

\* Command-Line browse_message, second half: the message is put again and
\* returned
MQManager_browse_message_put_back ==
    /\ browse_pc = "putback"
    /\ queue' = Append(queue, browse_held)
    /\ browse_result' = browse_held
    /\ browse_held' = "none"
    /\ browse_pc' = "idle"
    /\ UNCHANGED <<browse_backend, consumer_got, outstanding>>
    /\ UNCHANGED nonBrowseRaceVars

\* a native browse made of a destructive get and a later put
MQLibraryAdapter_browse_message_atomic_getAndPut ==
    /\ browse_backend = "mqnative"
    /\ browse_pc = "idle"
    /\ IF queue = <<>>
       THEN /\ browse_result' = "null"
            /\ UNCHANGED <<queue, browse_pc, browse_held>>
       ELSE /\ browse_held' = Head(queue)
            /\ queue' = Tail(queue)
            /\ browse_pc' = "putback"
            /\ browse_result' = "none"
    /\ UNCHANGED <<browse_backend, consumer_got, outstanding>>
    /\ UNCHANGED nonBrowseRaceVars

\* native browse_message: one get at the broker with MQGMO_BROWSE_FIRST on a
\* queue opened with MQOO_BROWSE, which returns the head and removes nothing
MQLibraryAdapter_browse_message_atomic ==
    /\ browse_backend = "mqnative"
    /\ browse_pc = "idle"
    /\ browse_result' = IF queue = <<>> THEN "null" ELSE Head(queue)
    /\ UNCHANGED <<queue, browse_backend, browse_pc, browse_held, consumer_got,
                   outstanding>>
    /\ UNCHANGED nonBrowseRaceVars

----------------------------------------------------------------------------
(* A configuration on its way to the managers *)

DatabaseNames == {"testdb", "salesdb"}

\* one section (database, messaging) of a configuration: the keys followed
\* here, each absent or set
Sections ==
    [implementation : {Absent, "cli", "library"}, auto_fallback : AutoFallbackValues,
     name : {Absent} \cup DatabaseNames, database : {Absent, "otherdb"}]

NoSection ==
    [implementation |-> Absent, auto_fallback |-> Absent, name |-> Absent,
     database |-> Absent]

\* ConfigManager.get_database_config: a new dictionary with the keys of
\* db_defaults (host, port, name, user, password, schema, timeout), each the
\* value of the loaded section or its default; no other key is copied
get_database_config(section) ==
    [implementation |-> Absent, auto_fallback |-> Absent,
     name |-> ConfigGet(section, "name", "testdb"), database |-> Absent]

\* ConfigManager.get_messaging_config: the keys of mq_defaults (host, port,
\* queue_manager, channel, user, password, timeout)
get_messaging_config(section) ==
    [implementation |-> Absent, auto_fallback |-> Absent, name |-> Absent,
     database |-> Absent]

\* the database named in the "connect to" invocation of DB2Manager.connect
DB2Manager_connect_database(config) == ConfigGet(config, "database", "testdb")

\* the DATABASE= of the connection string DB2LibraryAdapter.connect hands to
\* ibm_db.connect
DB2LibraryAdapter_connect_database(config) ==
    ConfigGet(config, "database", ConfigGet(config, "name", "testdb"))

NoServicesCall ==
    [op |-> "none", backend |-> "none", config |-> NoSection, target |-> "none",
     made |-> [k \in Kinds |-> "none"], exited |-> FALSE]

ServicesStart ==
    /\ loaded = [k \in Kinds |-> NoSection]
    /\ svc_call = NoServicesCall

ServicesFrame ==
    /\ UNCHANGED <<loaded, adapter_cache, fcall>>
    /\ UNCHANGED nonServicesVars

ConfigManager_get_database_config ==
    /\ svc_call' = [NoServicesCall EXCEPT !.op = "get_database_config",
                                          !.config = get_database_config(loaded["db2"])]
    /\ ServicesFrame

ConfigManager_get_messaging_config ==
    /\ svc_call' = [NoServicesCall EXCEPT !.op = "get_messaging_config",
                                          !.config = get_messaging_config(loaded["mq"])]
    /\ ServicesFrame

\* the record of a create call made with the cache entry avail and ended as sel
CreateCall(op, kind, config, avail, sel) ==
    [op |-> op, kind |-> kind,
     config |-> [implementation |-> config.implementation,
                 auto_fallback |-> config.auto_fallback],
     logger |-> TRUE,
     cache_before |-> adapter_cache[kind], available |-> avail,
     probed |-> (adapter_cache[kind] = "None"),
     outcome |-> sel.made.outcome, value |-> sel.made.value,
     constructed |-> sel.made.constructed,
     instance_connected |-> sel.made.connected,
     attempts |-> sel.made.attempts,
     warnings |-> sel.warnings, infos |-> sel.infos,
     named |-> sel.named, report |-> NoCall.report,
     cli_report |-> NoCall.cli_report]

\* ComponentBase._initialize_services once the configuration is loaded and
\* the logger made: the database manager from get_database_config() and the
\* messaging manager from get_messaging_config(), each made by the factory
\* with the logger manager; an exception ends the process (sys.exit(1))
ComponentBase_initialize_services ==
    LET db_config == get_database_config(loaded["db2"])
        db_avail == CacheAfterCheck("db2")
        db == SelectImplementation("db2", db_config, TRUE, db_avail)
        mq_config == get_messaging_config(loaded["mq"])
        mq_avail == CacheAfterCheck("mq")
        mq == SelectImplementation("mq", mq_config, TRUE, mq_avail)
        db_raised == db.made.outcome = "raise"
        mq_raised == mq.made.outcome = "raise"
    IN  /\ adapter_cache' = IF db_raised
                            THEN [adapter_cache EXCEPT !["db2"] = db_avail]
                            ELSE [k \in Kinds |-> CacheAfterCheck(k)]
        /\ fcall' = IF db_raised
                    THEN CreateCall("create_database_manager", "db2", db_config, db_avail, db)
                    ELSE CreateCall("create_messaging_manager", "mq", mq_config, mq_avail, mq)
        /\ svc_call' = [NoServicesCall EXCEPT
                !.op = "_initialize_services",
                !.made = [k \in Kinds |->
                            IF db_raised THEN "none"
                            ELSE IF k = "db2" THEN db.made.value
                            ELSE IF mq_raised THEN "none" ELSE mq.made.value],
                !.exited = db_raised \/ mq_raised]
        /\ UNCHANGED loaded
        /\ UNCHANGED nonServicesVars

\* the configurations a database manager is constructed with: the loaded
\* section as a caller hands it over, or what get_database_config() makes of it
ManagerConfigs == {loaded["db2"], get_database_config(loaded["db2"])}

\* connect() of a DB2Manager constructed with config: the database its
\* "connect to" invocation names
DB2Manager_connect_target ==
    \E config \in ManagerConfigs :
        /\ svc_call' = [NoServicesCall EXCEPT !.op = "connect", !.backend = "cli",
                                              !.config = config,
                                              !.target = DB2Manager_connect_database(config)]
        /\ ServicesFrame

\* connect() of a DB2LibraryAdapter constructed with config: the database of
\* its connection string
DB2LibraryAdapter_connect_target ==
    \E config \in ManagerConfigs :
        /\ svc_call' = [NoServicesCall EXCEPT !.op = "connect", !.backend = "native",
                                              !.config = config,
                                              !.target = DB2LibraryAdapter_connect_database(config)]
        /\ ServicesFrame

LaterStart ==
    /\ TwoManagersStart
    /\ CreateRaceStart
    /\ BrowseRaceStart
    /\ ServicesStart

----------------------------------------------------------------------------
(* Specifications *)

DbStart ==
    /\ connected = FALSE
    /\ conn = "None"
    /\ dbi_conn = "None"
    /\ handle_active = FALSE
    /\ uncommitted = 0
    /\ committed = 0
    /\ txn = [b \in Backends |-> NoTxn]

MqStart ==
    /\ mq_connected = FALSE
    /\ qmgr = "None"
    /\ qmgr_live = FALSE
    /\ queue = <<>>

FactoryStart ==
    /\ adapter_cache = [k \in Kinds |-> "None"]
    /\ fcall = NoCall

\* the factory on any installation: each native library present or not
FactoryInit ==
    /\ driven = "factory"
    /\ FactoryStart
    /\ HAS_LIB \in [Kinds -> BOOLEAN]
    /\ importable \in [Kinds -> BOOLEAN]
    /\ DbStart
    /\ MqStart
    /\ call = NoBackendCall
    /\ ComponentStart
    /\ RegistryStart
    /\ LaterStart

FactoryNext ==
    \/ create_database_manager
    \/ create_messaging_manager
    \/ get_available_implementations
    \/ reset_cache
    \/ library_availability_changes

SpecFactory == FactoryInit /\ [][FactoryNext]_vars

Instances == {"DB2Manager", "DB2LibraryAdapter", "MQManager", "MQLibraryAdapter"}

\* one manager instance, of any backend class, as its constructor leaves it,
\* on an installation that has the native libraries
BackendInit ==
    /\ driven \in Instances
    /\ FactoryStart
    /\ HAS_LIB = [k \in Kinds |-> TRUE]
    /\ importable = [k \in Kinds |-> TRUE]
    /\ DbStart
    /\ MqStart
    /\ call = NoBackendCall
    /\ ComponentStart
    /\ RegistryStart
    /\ LaterStart

DB2ManagerNext ==
    /\ driven = "DB2Manager"
    /\ \/ DB2Manager_connect
       \/ DB2Manager_disconnect
       \/ DB2Manager_execute_query
       \/ DB2Manager_execute_update
       \/ DB2Manager_execute_batch
       \/ DB2Manager_transaction_enter
       \/ DB2Manager_transaction_exit
       \/ DB2Manager_get_table_info
       \/ DB2Manager_get_database_info
       \/ DB2Manager_test_connection

DB2LibraryAdapterNext ==
    /\ driven = "DB2LibraryAdapter"
    /\ \/ DB2LibraryAdapter_connect
       \/ DB2LibraryAdapter_disconnect
       \/ DB2LibraryAdapter_execute_query
       \/ DB2LibraryAdapter_execute_update
       \/ DB2LibraryAdapter_execute_batch
       \/ DB2LibraryAdapter_transaction_enter
       \/ DB2LibraryAdapter_transaction_exit
       \/ DB2LibraryAdapter_get_table_info
       \/ DB2LibraryAdapter_get_database_info
       \/ DB2LibraryAdapter_test_connection

MQManagerNext ==
    /\ driven = "MQManager"
    /\ \/ MQManager_connect
       \/ MQManager_disconnect
       \/ MQManager_put_message
       \/ MQManager_get_message
       \/ MQManager_browse_message
       \/ MQManager_get_queue_depth
       \/ MQManager_purge_queue
       \/ MQManager_test_connection

MQLibraryAdapterNext ==
    /\ driven = "MQLibraryAdapter"
    /\ \/ MQLibraryAdapter_connect
       \/ MQLibraryAdapter_disconnect
       \/ MQLibraryAdapter_put_message
       \/ MQLibraryAdapter_get_message
       \/ MQLibraryAdapter_browse_message
       \/ MQLibraryAdapter_get_queue_depth
       \/ MQLibraryAdapter_purge_queue
       \/ MQLibraryAdapter_test_connection

BackendNext ==
    \/ DB2ManagerNext
    \/ DB2LibraryAdapterNext
    \/ MQManagerNext
    \/ MQLibraryAdapterNext

SpecBackend == BackendInit /\ [][BackendNext]_vars

\* one component, started up to MaxStarts times
ComponentInit ==
    /\ driven = "component"
    /\ FactoryStart
    /\ HAS_LIB = [k \in Kinds |-> TRUE]
    /\ importable = [k \in Kinds |-> TRUE]
    /\ DbStart
    /\ MqStart
    /\ call = NoBackendCall
    /\ ComponentStart
    /\ RegistryStart
    /\ LaterStart

ComponentNext ==
    \/ ComponentBase_start
    \/ ComponentBase_start_initialize
    \/ ComponentBase_start_run
    \/ ComponentBase_start_finally

SpecComponent == ComponentInit /\ [][ComponentNext]_vars

\* one registry, as its constructor leaves it
RegistryInit ==
    /\ driven = "registry"
    /\ FactoryStart
    /\ HAS_LIB = [k \in Kinds |-> TRUE]
    /\ importable = [k \in Kinds |-> TRUE]
    /\ DbStart
    /\ MqStart
    /\ call = NoBackendCall
    /\ ComponentStart
    /\ RegistryStart
    /\ LaterStart

RegistryNext ==
    \/ ComponentRegistry_register
    \/ ComponentRegistry_unregister
    \/ ComponentRegistry_get_component
    \/ ComponentRegistry_list_components
    \/ ComponentRegistry_is_registered
    \/ ComponentRegistry_get_component_count
    \/ ComponentRegistry_clear

SpecRegistry == RegistryInit /\ [][RegistryNext]_vars

\* two instances of any two backend classes, as their constructors leave them
TwoManagersInit ==
    /\ driven = "two managers"
    /\ FactoryStart
    /\ HAS_LIB = [k \in Kinds |-> TRUE]
    /\ importable = [k \in Kinds |-> TRUE]
    /\ DbStart
    /\ MqStart
    /\ call = NoBackendCall
    /\ ComponentStart
    /\ RegistryStart
    /\ inst_class \in [ManagerIds -> Instances]
    /\ inst_connected = [m \in ManagerIds |-> FALSE]
    /\ inst_handle = [m \in ManagerIds |-> "None"]
    /\ query_pc = [m \in ManagerIds |-> "idle"]
    /\ query_pending = [m \in ManagerIds |-> "none"]
    /\ query_out = [m \in ManagerIds |-> NoQueryOut]
    /\ result_file = "none"
    /\ statement_files = {}
    /\ icall = NoInstanceCall
    /\ CreateRaceStart
    /\ BrowseRaceStart
    /\ ServicesStart

TwoManagersNext ==
    \/ Instance_connect
    \/ Instance_disconnect
    \/ Instance_data_operation
    \/ DB2Manager_execute_query_begin
    \/ DB2Manager_execute_query_import
    \/ DB2Manager_execute_query_export
    \/ DB2Manager_execute_query_parse
    \/ DB2Manager_execute_query_finally

SpecTwoManagers == TwoManagersInit /\ [][TwoManagersNext]_vars

\* concurrent create calls for one resource kind, on any installation, from
\* an unknown cache
CreateRaceInit ==
    /\ driven = "create race"
    /\ FactoryStart
    /\ HAS_LIB \in [Kinds -> BOOLEAN]
    /\ importable \in [Kinds -> BOOLEAN]
    /\ DbStart
    /\ MqStart
    /\ call = NoBackendCall
    /\ ComponentStart
    /\ RegistryStart
    /\ TwoManagersStart
    /\ race_kind \in Kinds
    /\ create_pc = [th \in Threads |-> "idle"]
    /\ create_config = [th \in Threads |-> [implementation |-> Absent,
                                            auto_fallback |-> Absent]]
    /\ create_result = [th \in Threads |-> NoCreateResult]
    /\ BrowseRaceStart
    /\ ServicesStart

CreateRaceNext ==
    \/ create_manager_check
    \/ create_manager_probe
    \/ create_manager_select
    \/ reset_cache

SpecCreateRace == CreateRaceInit /\ [][CreateRaceNext]_vars

\* a browsing instance of either messaging backend, a producer and another
\* consumer on one queue
BrowseRaceInit ==
    /\ driven = "browse race"
    /\ FactoryStart
    /\ HAS_LIB = [k \in Kinds |-> TRUE]
    /\ importable = [k \in Kinds |-> TRUE]
    /\ DbStart
    /\ MqStart
    /\ call = NoBackendCall
    /\ ComponentStart
    /\ RegistryStart
    /\ TwoManagersStart
    /\ CreateRaceStart
    /\ browse_backend \in {"mqcli", "mqnative"}
    /\ browse_pc = "idle"
    /\ browse_held = "none"
    /\ browse_result = "none"
    /\ consumer_got = NoConsumerGet
    /\ outstanding = 0
    /\ ServicesStart

BrowseRaceNext ==
    \/ producer_put_message
    \/ consumer_get_message
    \/ MQManager_browse_message_get
    \/ MQManager_browse_message_put_back
    \/ MQLibraryAdapter_browse_message_atomic

SpecBrowseRace == BrowseRaceInit /\ [][BrowseRaceNext]_vars

\* configurations loaded on any installation; the messaging section has no
\* database name
ServicesInit ==
    /\ driven = "services"
    /\ FactoryStart
    /\ HAS_LIB \in [Kinds -> BOOLEAN]
    /\ importable = [k \in Kinds |-> TRUE]
    /\ DbStart
    /\ MqStart
    /\ call = NoBackendCall
    /\ ComponentStart
    /\ RegistryStart
    /\ TwoManagersStart
    /\ CreateRaceStart
    /\ BrowseRaceStart
    /\ loaded \in {l \in [Kinds -> Sections] :
                     l["mq"].name = Absent /\ l["mq"].database = Absent}
    /\ svc_call = NoServicesCall

ServicesNext ==
    \/ ConfigManager_get_database_config
    \/ ConfigManager_get_messaging_config
    \/ ComponentBase_initialize_services
    \/ DB2Manager_connect_target
    \/ DB2LibraryAdapter_connect_target

SpecServices == ServicesInit /\ [][ServicesNext]_vars

----------------------------------------------------------------------------
(* Properties of the manager factory (SpecFactory) *)

IsCreate == fcall.op \in {"create_database_manager", "create_messaging_manager"}

\* C1: a create call whose configuration has implementation "cli", or no
\* implementation key, returns the Command-Line adapter of its resource kind
\* and raises nothing, whatever the availability cache held before the call.
C1_CliReturnsCommandLineAdapter ==
    (IsCreate /\ fcall.config.implementation \in {"cli", Absent})
        => /\ fcall.outcome = "return"
           /\ fcall.value = CLIAdapterOf(fcall.kind)
           /\ fcall.constructed = <<CLIAdapterOf(fcall.kind)>>

\* a cli create call made while the cache says the native library is there
C1_Witness ==
    /\ fcall.op = "create_database_manager"
    /\ fcall.config.implementation = "cli"
    /\ fcall.cache_before = "True"
    /\ fcall.value = "DB2CLIAdapter"

\* C2: a create call with implementation "library" and auto_fallback true
\* or absent, made when the native library is unavailable, returns the
\* Command-Line adapter, not the native one, and emits exactly one warning
\* through the logger it was given (none when it was given no logger).
C2_FallbackReturnsCommandLineAdapter ==
    (/\ IsCreate
     /\ fcall.config.implementation = "library"
     /\ fcall.config.auto_fallback \in {"True", Absent}
     /\ fcall.available = "False")
        => /\ fcall.outcome = "return"
           /\ fcall.value = CLIAdapterOf(fcall.kind)
           /\ fcall.constructed = <<CLIAdapterOf(fcall.kind)>>
           /\ fcall.warnings = (IF fcall.logger THEN 1 ELSE 0)

\* a fallback taken on the first probe, with a logger and no auto_fallback key
C2_Witness ==
    /\ fcall.op = "create_messaging_manager"
    /\ fcall.config = [implementation |-> "library", auto_fallback |-> Absent]
    /\ fcall.probed
    /\ fcall.available = "False"
    /\ fcall.logger
    /\ fcall.value = "MQCLIAdapter"
    /\ fcall.warnings = 1

\* C3: a create call with implementation "library" and auto_fallback false,
\* made when the native library is unavailable, raises the configuration
\* error and runs no adapter constructor.
C3_NoFallbackRaises ==
    (/\ IsCreate
     /\ fcall.config.implementation = "library"
     /\ fcall.config.auto_fallback = "False"
     /\ fcall.available = "False")
        => /\ fcall.outcome = "raise"
           /\ fcall.value = "ValueError:not installed"
           /\ fcall.constructed = <<>>

\* the error raised for the database kind from a cache that already says False
C3_Witness ==
    /\ fcall.op = "create_database_manager"
    /\ fcall.config = [implementation |-> "library", auto_fallback |-> "False"]
    /\ fcall.cache_before = "False"
    /\ fcall.outcome = "raise"

----------------------------------------------------------------------------
(* Properties of the backends (SpecBackend) *)

DataOperations ==
    {"execute_query", "execute_update", "execute_batch", "transaction", "get_table_info",
     "get_database_info", "put_message", "get_message", "browse_message",
     "get_queue_depth", "purge_queue"}

\* is_connected() of the instance a call record belongs to
IsConnected(backend) ==
    CASE backend = "cli" -> DB2Manager_is_connected
      [] backend = "native" -> DB2LibraryAdapter_is_connected
      [] backend = "mqcli" -> MQManager_is_connected
      [] backend = "mqnative" -> MQLibraryAdapter_is_connected
      [] OTHER -> FALSE

Count(seq, x) == Cardinality({i \in DOMAIN seq : seq[i] = x})

Issued(seq, x) == \E i \in DOMAIN seq : seq[i] = x

\* C4: a data operation called on a Disconnected instance, on any of the
\* four backends, raises the not-connected error, issues no external
\* invocation and leaves the instance Disconnected.
C4_DataOperationNeedsConnection ==
    (call.op \in DataOperations /\ ~call.was_connected)
        => /\ call.outcome = "raise"
           /\ call.error = NotConnectedError
           /\ call.invocations = <<>>
           /\ ~IsConnected(call.backend)

\* get_queue_depth refused on a Disconnected command-line messaging instance
C4_Witness ==
    /\ call.backend = "mqcli"
    /\ call.op = "get_queue_depth"
    /\ ~call.was_connected
    /\ call.outcome = "raise"

\* C5: a transaction scope entered on a Connected instance issues begin
\* first (command-line backend), and by its end has issued exactly one of
\* commit and rollback: commit if and only if the body returned normally.
C5_ExactlyOneOfCommitRollback ==
    \A b \in Backends :
        txn[b].phase = "done"
            => /\ Count(txn[b].trace, "commit") + Count(txn[b].trace, "rollback") = 1
               /\ Issued(txn[b].trace, "commit") <=> txn[b].body = "normal"
               /\ b = "cli" => txn[b].trace[1] = "begin"

\* C6: when the body of a transaction scope raises, rollback is issued and
\* the caller observes the body's own error, also when the rollback fails.
C6_BodyErrorReachesCaller ==
    (/\ call.op = "transaction_exit"
     /\ call.backend \in Backends
     /\ txn[call.backend].body = "Exception")
        => /\ Issued(call.invocations, "rollback")
           /\ call.outcome = "raise"
           /\ call.error = <<"BodyError", "body">>

\* C7: execute_batch is all-or-nothing: if a statement of the batch fails,
\* rollback is issued, commit is not and the call raises; counts are
\* returned only when every statement succeeded and commit was issued.
C7_BatchAllOrNothing ==
    (call.op = "execute_batch" /\ call.was_connected)
        => LET failed == \E i \in DOMAIN call.stmts : call.stmts[i] # "ok"
           IN  /\ failed => /\ Issued(call.invocations, "rollback")
                            /\ ~Issued(call.invocations, "commit")
                            /\ call.outcome = "raise"
               /\ call.outcome = "return" => /\ ~failed
                                             /\ Issued(call.invocations, "commit")

\* C8: on the native backend nothing is committed between the entry to a
\* transaction scope and its end; at the rollback of a scope whose body
\* raised, no update of the body has been committed.
C8_NothingCommittedInsideScope ==
    (\/ txn["native"].phase = "body"
     \/ /\ txn["native"].phase = "done"
        /\ call.op = "transaction_exit"
        /\ txn["native"].body = "Exception")
        => committed = txn["native"].committed_at_enter

\* C9: a connect call that fails on a Disconnected instance returns false
\* and leaves the instance Disconnected.
C9_FailedConnectStaysDisconnected ==
    (call.op = "connect" /\ ~call.was_connected /\ call.value = "False")
        => /\ call.outcome = "return"
           /\ ~IsConnected(call.backend)

\* C10: after disconnect has returned the instance is Disconnected, and a
\* disconnect of a Disconnected instance issues no external invocation.
C10_DisconnectedAfterDisconnect ==
    call.op = "disconnect"
        => /\ call.outcome = "return"
           /\ ~IsConnected(call.backend)
           /\ ~call.was_connected => call.invocations = <<>>

C12_AnyOtherValueRaises ==
    (IsCreate /\ fcall.config.implementation \notin {"cli", "library", Absent})
        => /\ fcall.outcome = "raise"
           /\ fcall.value = "ValueError:unknown type"
           /\ fcall.named = fcall.config.implementation
           /\ fcall.constructed = <<>>

\* C12: a create call whose implementation string is, letter case set aside,
\* neither "cli" nor "library" raises the configuration error, whose message
\* names the value in lower case, and runs no adapter constructor, whatever
\* the availability cache and auto_fallback are.
C12_UnknownImplementationRaises ==
    (IsCreate /\ fcall.config.implementation \in {"native", "Native"})
        => /\ fcall.outcome = "raise"
           /\ fcall.value = "ValueError:unknown type"
           /\ fcall.named = "native"
           /\ fcall.constructed = <<>>
           /\ fcall.warnings = 0
           /\ fcall.infos = 0

\* the error raised for the messaging kind, for a value given in mixed case,
\* with auto_fallback on and a cache that says the native library is there
C12_Witness ==
    /\ fcall.op = "create_messaging_manager"
    /\ fcall.config = [implementation |-> "Native", auto_fallback |-> "True"]
    /\ fcall.cache_before = "True"
    /\ fcall.outcome = "raise"
    /\ fcall.named = "native"

\* the step is a create call for the resource kind k
StepIsCreate(k) ==
    /\ fcall'.op \in {"create_database_manager", "create_messaging_manager"}
    /\ fcall'.kind = k
    /\ UNCHANGED <<HAS_LIB, importable>>

\* C13: once the cache entry of a kind holds true or false, a create call
\* for that kind uses the value without probing and leaves it unchanged,
\* also after the real availability has changed; the entry changes only in
\* reset_cache, to unknown, and the create call that follows probes again.
C13_CacheHeldUntilReset ==
    [][\A k \in Kinds :
         /\ (adapter_cache[k] # "None" /\ StepIsCreate(k))
              => /\ adapter_cache'[k] = adapter_cache[k]
                 /\ ~fcall'.probed
                 /\ fcall'.available = adapter_cache[k]
         /\ (adapter_cache[k] # "None" /\ adapter_cache'[k] # adapter_cache[k])
              => /\ fcall'.op = "reset_cache"
                 /\ adapter_cache'[k] = "None"
         /\ (adapter_cache[k] = "None" /\ StepIsCreate(k))
              => /\ fcall'.probed
                 /\ adapter_cache'[k] = PyBool(importable[k] /\ HAS_LIB[k])
                 /\ fcall'.available = adapter_cache'[k]]_vars

\* a create call that falls back on a cached "unavailable" although the
\* native library has become available since the probe
C13_Witness ==
    /\ fcall.op = "create_database_manager"
    /\ fcall.config.implementation = "library"
    /\ fcall.cache_before = "False"
    /\ ~fcall.probed
    /\ fcall.value = "DB2CLIAdapter"
    /\ adapter_cache["db2"] = "False"
    /\ importable["db2"] /\ HAS_LIB["db2"]

\* C14: get_available_implementations reports "library" of each kind as the
\* cache entry of that kind says, and does not probe the native library
\* when the entry is unknown.
C14_ReportsCacheWithoutProbe ==
    fcall.op = "get_available_implementations"
        => \A k \in Kinds :
            /\ adapter_cache[k] # "None" => fcall.report[k] = adapter_cache[k]
            /\ adapter_cache[k] = "None" => ~fcall.probed

\* C15: get_available_implementations reports "cli" as usable for both
\* kinds, raises nothing and leaves the availability cache as it was,
\* whatever the cache holds and whether or not the native adapter modules
\* can be loaded.
C15_ReportLeavesCacheAlone ==
    [][fcall'.op = "get_available_implementations"
        => /\ fcall'.outcome = "return"
           /\ \A k \in Kinds : fcall'.cli_report[k] = "True"
           /\ adapter_cache' = adapter_cache]_vars

\* a report made while the database adapter module cannot be loaded, the
\* database entry is still unknown and the messaging entry is known
C15_Witness ==
    /\ fcall.op = "get_available_implementations"
    /\ ~importable["db2"]
    /\ fcall.report["db2"] = "False"
    /\ fcall.cli_report["db2"] = "True"
    /\ adapter_cache["db2"] = "None"
    /\ adapter_cache["mq"] = "True"

\* C16: after a create call for a resource kind, also one that asks for
\* "cli", the cache entry of that kind is no longer unknown, and the entry
\* of the other kind is as it was before the call.
C16_CreateFillsOwnEntryOnly ==
    [][\A k \in Kinds :
         StepIsCreate(k)
            => /\ adapter_cache'[k] # "None"
               /\ \A j \in Kinds \ {k} : adapter_cache'[j] = adapter_cache[j]]_vars

\* a cli create call for the database kind has filled the database entry
\* and left the messaging entry unknown
C16_Witness ==
    /\ fcall.op = "create_database_manager"
    /\ fcall.config.implementation = "cli"
    /\ fcall.cache_before = "None"
    /\ fcall.value = "DB2CLIAdapter"
    /\ adapter_cache["db2"] # "None"
    /\ adapter_cache["mq"] = "None"

\* C17: execute_update of the command-line database backend does not report
\* success for a failed write: when the tool invocation for the statement
\* exits non-zero or times out, the call raises and returns no row count.
C17_FailedUpdateRaises ==
    (/\ call.backend = "cli"
     /\ call.op = "execute_update"
     /\ call.was_connected
     /\ call.outs \in {<<"nonzero">>, <<"timeout">>})
        => call.outcome = "raise"

\* the outcomes of the invocations by which the last call read: all of them
\* but the put-back of browse_message
ReadOuts ==
    IF call.op = "browse_message" /\ Len(call.outs) > 1
    THEN SubSeq(call.outs, 1, 1)
    ELSE call.outs

\* C18: on the command-line backends a non-zero tool exit code in a read
\* operation raises an error that carries the tool's error text; the call
\* does not return an empty result or null.
C18_FailedReadRaises ==
    (/\ call.backend \in {"cli", "mqcli"}
     /\ call.op \in {"execute_query", "get_table_info", "get_database_info",
                     "get_message", "browse_message"}
     /\ call.was_connected
     /\ \E i \in DOMAIN ReadOuts : ReadOuts[i] = "nonzero")
        => /\ call.outcome = "raise"
           /\ call.backend = "cli" => call.error[1] = "QueryFailed"

\* C19: an operation of a command-line backend whose tool invocation
\* exceeds the timeout raises a timeout error to its caller; it does not
\* return a normal value such as false, null or -1.
C19_TimeoutSurfacesAsError ==
    (/\ call.backend \in {"cli", "mqcli"}
     /\ \E i \in DOMAIN call.outs : call.outs[i] = "timeout")
        => /\ call.outcome = "raise"
           /\ call.error[1] \in {"CommandTimeout", "TimeoutExpired"}

\* C20: get_message on a Connected messaging instance whose queue is empty
\* returns null and raises nothing, on both backends, also when the wait
\* for a message ends by the timeout.
C20_EmptyQueueGivesNull ==
    (/\ call.backend \in {"mqcli", "mqnative"}
     /\ call.op = "get_message"
     /\ call.was_connected
     /\ queue = <<>>
     /\ call.msg = "none"
     /\ call.outs \in {<<"ok">>, <<"timeout">>, <<"no_msg">>})
        => /\ call.outcome = "return"
           /\ call.value = "None"

C22_PurgeReturnsDepthBeforeClear ==
    [][(/\ call'.backend = "mqcli"
        /\ call'.op = "purge_queue"
        /\ call'.was_connected)
        => /\ call'.invocations = <<"display queue", "clear queue">>
           /\ call'.outs[2] = "ok"
                => /\ call'.outcome = "return"
                   /\ call'.count >= 0
                   /\ call'.outs[1] # "ok" => call'.count = 0
                   /\ (/\ call'.outs[1] = "ok"
                       /\ call'.stdout = <<"QUEUE(Q)", "CURDEPTH", ToString(Len(queue))>>)
                        => call'.count = Len(queue)
           /\ call'.outs[2] # "ok"
                => /\ call'.outcome = "raise"
                   /\ call'.count = 0]_vars

\* a purge whose inspection timed out and whose clear succeeded: it returns
\* 0 and the queue is empty
C22_Witness ==
    /\ call.backend = "mqcli"
    /\ call.op = "purge_queue"
    /\ call.was_connected
    /\ call.outs = <<"timeout", "ok">>
    /\ call.outcome = "return"
    /\ call.count = 0
    /\ queue = <<>>

\* C23: browse_message does not remove the message, on either messaging
\* backend: when it returns a message, the queue still holds that message
\* afterwards and is as deep as before the call, also when the put-back of
\* the command-line backend fails.
C23_BrowseKeepsMessage ==
    [][(/\ call'.backend \in {"mqcli", "mqnative"}
        /\ call'.op = "browse_message"
        /\ call'.outcome = "return"
        /\ call'.value = "message")
        => /\ Len(queue') = Len(queue)
           /\ \E i \in DOMAIN queue' : queue'[i] = call'.msg]_vars

\* C24: test_connection raises nothing on any backend in any state, and it
\* returns false on a Disconnected instance and whenever its invocation
\* fails or times out.
C24_TestConnectionFalseOnFailure ==
    call.op = "test_connection"
        => /\ call.outcome = "return"
           /\ ~call.was_connected => call.value = "False"
           /\ (call.outs # <<>> /\ call.outs[Len(call.outs)] \in {"nonzero", "timeout", "oserror"})
                => call.value = "False"


C26_FactoryNeverConnects ==
    IsCreate =>
        /\ fcall.attempts = <<>>
        /\ fcall.outcome = "return" => fcall.instance_connected = "False"
        /\ fcall.outcome = "raise" => fcall.instance_connected = "none"

\* a native adapter was returned, Disconnected
C26_Witness ==
    /\ IsCreate
    /\ fcall.outcome = "return"
    /\ fcall.value = "DB2LibraryAdapter"
    /\ fcall.instance_connected = "False"
    /\ fcall.attempts = <<>>


\* C27: a Command-Line adapter is a pure delegate: after every call of every
\* sequence, what the adapter returned or raised is what the wrapped manager
\* returned or raised for that call, and the adapter's connected state is the
\* wrapped manager's (the adapter has none of its own)
C27_ShimIsPureDelegate ==
    call.backend \in {"cli", "mqcli"} =>
        /\ call.outcome = call.impl.outcome
        /\ call.value = call.impl.value
        /\ call.count = call.impl.count
        /\ call.error = call.impl.error
        /\ call.backend = "cli" => DB2CLIAdapter_is_connected = connected
        /\ call.backend = "mqcli" => MQCLIAdapter_is_connected = mq_connected

\* the wrapped manager raised on a query of a connected instance and the
\* adapter raised the same error
C27_Witness ==
    /\ call.backend = "cli"
    /\ call.op = "execute_query"
    /\ call.was_connected
    /\ call.impl.outcome = "raise"
    /\ call.outcome = "raise"
    /\ call.error = call.impl.error
    /\ call.error # NoError


----------------------------------------------------------------------------
(* Properties of the component lifecycle (SpecComponent) *)

HookNames == [i \in 1..Len(hook_calls) |-> hook_calls[i][1]]

\* a start has been called and has ended
Finished == start_pc = "idle" /\ starts > 0

LastHook == hook_calls[Len(hook_calls)]

\* C28: start calls initialize first, calls run only after initialize
\* returned true, and calls cleanup exactly once however it ends: initialize
\* returning false or raising, run returning false or raising
\* (KeyboardInterrupt included), or both returning true
C28_StartSequencesHooks ==
    /\ Len(hook_calls) > 0 => hook_calls[1][1] = "initialize"
    /\ Count(HookNames, "initialize") =< 1
    /\ \A i \in 1..Len(hook_calls) :
           hook_calls[i][1] = "run" => (i = 2 /\ hook_calls[1] = <<"initialize", "True">>)
    /\ Count(HookNames, "cleanup") =< 1
    /\ Finished => /\ Count(HookNames, "cleanup") = 1
                   /\ LastHook[1] = "cleanup"

\* run raised KeyboardInterrupt: cleanup was called once and the interrupt
\* left start
C28_Witness ==
    /\ Finished
    /\ hook_calls = << <<"initialize", "True">>, <<"run", "KeyboardInterrupt">>,
                       <<"cleanup", "None">> >>
    /\ start_result = StartRaises("KeyboardInterrupt")

InitializeAndRunReturnedTrue ==
    /\ Len(hook_calls) >= 2
    /\ hook_calls[1] = <<"initialize", "True">>
    /\ hook_calls[2] = <<"run", "True">>

\* C29: start returns true if and only if initialize and run both returned
\* true; no Exception raised by initialize, run or cleanup leaves start; an
\* Exception raised by cleanup leaves the value start returns as it was
C29_StartTrueIffBothTrue ==
    Finished =>
        /\ (start_result = StartReturns(TRUE)) <=> InitializeAndRunReturnedTrue
        /\ start_result.outcome = "raise" => start_result.value # "Exception"
        /\ LastHook = <<"cleanup", "Exception">> => start_result = start_pending

\* C29, amended: start returns true if and only if initialize and run both
\* returned true and cleanup raised nothing but an Exception (a
\* KeyboardInterrupt or SystemExit raised by cleanup leaves start in place of
\* the return value); no Exception raised by initialize, run or cleanup leaves
\* start; an Exception raised by cleanup leaves the value start returns as it
\* was
C29_StartTrueIffBothTrueAndCleanupEnds ==
    Finished =>
        /\ (start_result = StartReturns(TRUE))
               <=> (InitializeAndRunReturnedTrue /\ LastHook[2] \in {"None", "Exception"})
        /\ start_result.outcome = "return"
               => (start_result.value = "True" <=> InitializeAndRunReturnedTrue)
        /\ start_result.outcome = "raise" => start_result.value # "Exception"
        /\ LastHook = <<"cleanup", "Exception">> => start_result = start_pending

\* both hooks returned true, cleanup raised an Exception, start returned true
C29_Witness ==
    /\ Finished
    /\ hook_calls = << <<"initialize", "True">>, <<"run", "True">>,
                       <<"cleanup", "Exception">> >>
    /\ start_result = StartReturns(TRUE)
    /\ component_log = <<"info", "info", "error">>

----------------------------------------------------------------------------
(* Properties of the component registry (SpecRegistry) *)

\* C30: register of a registered name raises ValueError, unregister and
\* get_component of a name that is not registered raise KeyError, each
\* leaving the registry as it was; after any sequence of calls the names that
\* is_registered answers true for are those registered and not since
\* unregistered or cleared, and get_component_count is the length of
\* list_components
C30_RegistryContract ==
    /\ (rcall.op = "register" /\ DictContains(rcall.before, rcall.arg))
           => /\ rcall.outcome = "raise" /\ rcall.value = "ValueError"
              /\ components = rcall.before
    /\ (rcall.op \in {"unregister", "get_component"}
            /\ ~DictContains(rcall.before, rcall.arg))
           => /\ rcall.outcome = "raise" /\ rcall.value = "KeyError"
              /\ components = rcall.before
    /\ \A n \in ComponentNames : DictContains(components, n) <=> n \in registered
    /\ rcall.op = "is_registered" => rcall.value = PyBool(rcall.arg \in registered)
    /\ DictLen(components) = Len(DictKeys(components))
    /\ rcall.op = "get_component_count" => rcall.count = Len(DictKeys(components))
    /\ rcall.op = "list_components" => Len(rcall.listed) = DictLen(components)

\* a second register of a name, made while two names are registered
C30_Witness ==
    /\ rcall.op = "register"
    /\ rcall.outcome = "raise"
    /\ rcall.value = "ValueError"
    /\ Len(components) = 2
    /\ components = rcall.before

----------------------------------------------------------------------------
(* Properties of two manager instances in one process (SpecTwoManagers) *)

\* C31: two Command-Line database manager instances, each connected on its
\* own, that run execute_query at the same time do not interfere: a call that
\* returns gives the rows of its own query
C31_ConcurrentQueriesDoNotInterfere ==
    \A m \in ManagerIds :
        (inst_class[m] = "DB2Manager" /\ query_out[m].outcome = "return")
            => query_out[m].rows = RowsOf(m)

----------------------------------------------------------------------------
(* Properties of concurrent create calls (SpecCreateRace) *)

\* C32: whatever the interleaving of concurrent create calls for one
\* resource kind with each other and with reset_cache, a create call for the
\* library implementation chooses from what the probe really finds: the
\* native adapter when the library is available, the fallback or the error
\* only when it is not
C32_RaceChoosesFromRealProbe ==
    \A th \in Threads :
        (create_result[th].outcome # "none"
            /\ Lower(ConfigGet(create_config[th], "implementation", "cli")) = "library")
            => IF ProbeLibrary(race_kind) = "True"
               THEN create_result[th] =
                        [outcome |-> "return", value |-> LibraryAdapterOf(race_kind)]
               ELSE create_result[th].value
                        \in {CLIAdapterOf(race_kind), "ValueError:not installed"}

----------------------------------------------------------------------------
(* Further properties of the backends (SpecBackend) *)

\* C34: with nobody else on the queue, a Command-Line browse_message of a
\* queue holding two or more messages, both of whose invocations succeeded,
\* leaves the message it returned at the head of the queue, so that the
\* get_message that follows returns that same message
C34_BrowseKeepsOrder ==
    [][(/\ call'.backend = "mqcli"
        /\ call'.op = "browse_message"
        /\ call'.outcome = "return"
        /\ call'.value = "message"
        /\ call'.outs = <<"ok", "ok">>
        /\ Len(queue) >= 2)
           => (queue' # <<>> /\ Head(queue') = call'.msg)]_vars

----------------------------------------------------------------------------
(* Properties of browse_message against another consumer (SpecBrowseRace) *)

\* the other consumer's get_message returned null while a message was put
\* and consumed by no one
ConsumerSawEmptyQueueWithMessageOutstanding ==
    consumer_got.value = "null" /\ consumer_got.outstanding > 0

\* C33: on the native backend no interleaving of browse_message with another
\* consumer's get_message makes that get return null while a message is
\* unconsumed; on the Command-Line backend such an interleaving exists,
\* between the get and the re-put of the browse
C33_NativeBrowseNeverHidesMessage ==
    browse_backend = "mqnative" => ~ConsumerSawEmptyQueueWithMessageOutstanding

\* the Command-Line browse holds the only message, taken and not yet put
\* back, and the other consumer's get has just returned null
C33_Witness ==
    /\ browse_backend = "mqcli"
    /\ browse_pc = "putback"
    /\ browse_held \in Messages
    /\ queue = <<>>
    /\ ConsumerSawEmptyQueueWithMessageOutstanding

\* C36: a native purge_queue of a connected instance, with no producer
\* adding messages, that returns has removed every message, returns the
\* number of messages it removed and leaves the queue empty; an error other
\* than "no message available" during the removal is raised
C36_NativePurgeEmptiesQueue ==
    [][(/\ call'.backend = "mqnative"
        /\ call'.op = "purge_queue"
        /\ call'.was_connected)
           => IF call'.outcome = "return"
              THEN /\ queue' = <<>>
                   /\ call'.count = Len(queue) - Len(queue')
              ELSE call'.error = <<"NativeError", "queue.get">>]_vars

\* C37: every operation of a Command-Line backend that reaches the external
\* tool (connect, disconnect, and a data operation of a connected instance)
\* issues exactly one invocation, and the one invocation of execute_query is
\* the export of the result set.
C37_OneInvocationPerOperation ==
    (/\ call.backend \in {"cli", "mqcli"}
     /\ \/ call.op \in {"connect", "disconnect"}
        \/ call.op \in DataOperations /\ call.was_connected)
        => /\ Len(call.invocations) = 1
           /\ call.op = "execute_query" => call.invocations = <<"export to">>

----------------------------------------------------------------------------
(* Properties of a configuration on its way to the managers (SpecServices) *)

\* C38: for a configuration {implementation: cli, name: X} the connect
\* invocation of the Command-Line database backend names the database X,
\* which is the database the native backend connects to for that
\* configuration.
C38_CommandLineConnectsToName ==
    (/\ svc_call.op = "connect"
     /\ svc_call.backend = "cli"
     /\ svc_call.config.implementation = "cli"
     /\ svc_call.config.name # Absent
     /\ svc_call.config.database = Absent)
        => /\ svc_call.target = svc_call.config.name
           /\ svc_call.target = DB2LibraryAdapter_connect_database(svc_call.config)

\* C39: the implementation and auto_fallback of the loaded database and
\* messaging sections reach the factory when a component is initialized: a
\* section with implementation = library gives the component the native
\* adapter when the library is present, the Command-Line adapter when it is
\* absent and the fallback is on, and ends the initialization when it is
\* absent and the fallback is off.
C39_SelectionReachesFactory ==
    svc_call.op = "_initialize_services"
        => \A k \in Kinds :
              loaded[k].implementation = "library"
                  => IF HAS_LIB[k]
                     THEN svc_call.exited \/ svc_call.made[k] = LibraryAdapterOf(k)
                     ELSE IF AutoFallback(loaded[k])
                     THEN svc_call.exited \/ svc_call.made[k] = CLIAdapterOf(k)
                     ELSE svc_call.exited

====
